---- MODULE Spec2Model ----
\* A model of gitstats: per-developer statistics over a commit history
\* (stats.py), the identity mapping layer (identity.py) and the merge of
\* several repositories' results (cli.py).
\*
\* Text is modelled as a sequence of code points (Python str), so that
\* lower(), strip(), substring tests, the regular-expression search and the
\* lexicographic order of sorted() are computed and not assumed.
\* A datetime is a pair <<ordinal, second of day>>; the ordinal is the
\* proleptic Gregorian day number of datetime.toordinal().
EXTENDS Integers, Sequences, FiniteSets, TLC

VARIABLES
    \* one call of normalize_email
    n_pc, n_email, n_result,
    \* the identity mapping store of one repository and the last lookup
    identity_store, i_pc, i_name, i_email, i_result,
    \* the exclusion list configured for the repository
    excluded_store,
    \* one call of get_repo_stats: its arguments, the repository, the clock
    g_pc, repo, since, until, exclude, exclude_developers, today,
    \* ... and its locals
    email_to_author, author_emails, author_order, consolidated_emails,
    commits, idx, stats,
    \* one call of merge_stats: its arguments, its locals and what it returns
    m_pc, stats_list, m_since, repo_index, merged_stats, overall_start_date,
    \* one call of get_commit_frequency_score: its argument and its result
    s_pc, s_data, s_score,
    \* one run of handle_stats_command: its arguments, its locals, the
    \* repositories it reported as failed and what it handed to display_stats
    h_pc, h_args, h_since, h_index, h_stats_list, h_errors, h_shown

NormVars == <<n_pc, n_email, n_result>>

IdVars == <<identity_store, i_pc, i_name, i_email, i_result>>

RepoArgs == <<repo, since, until, exclude, exclude_developers, today>>

RepoLocals ==
    <<email_to_author, author_emails, author_order, consolidated_emails,
      commits, stats>>

RepoVars == <<excluded_store, g_pc, idx, RepoArgs, RepoLocals>>

MergeVars ==
    <<m_pc, stats_list, m_since, repo_index, merged_stats,
      overall_start_date>>

ScoreVars == <<s_pc, s_data, s_score>>

CliVars ==
    <<h_pc, h_args, h_since, h_index, h_stats_list, h_errors, h_shown>>

vars == <<NormVars, IdVars, RepoVars, MergeVars, ScoreVars, CliVars>>

----------------------------------------------------------------------------
\* Bounds of the model

\* longest commit list handed to one run of get_repo_stats
MaxCommits == 3

\* longest history of the authors that share e-mails in a chain
MaxChainCommits == 5

\* merge_stats: the most result sets in stats_list, and the most commits in
\* the repository behind one result set
MaxRepos == 2

MaxRepoCommits == 2

\* the most commits of the repository with one commit a week
MaxWeeks == 55

\* the days of the window in which the repositories of the streak runs
\* have their commits
WindowDays == 9

\* the most repository paths on the command line
MaxPaths == 3

\* the longest max_streak handed to get_commit_frequency_score
MaxStreakArg == 11

\* the most commits of a repository whose orders are compared
MaxOrderCommits == 3

----------------------------------------------------------------------------
\* Python str operations on code-point sequences

SetMin(S) == CHOOSE x \in S : \A y \in S : x <= y

SetMax(S) == CHOOSE x \in S : \A y \in S : x >= y

\* str.lower(), ASCII range
Lower(s) == [i \in 1..Len(s) |-> IF s[i] \in 65..90 THEN s[i] + 32 ELSE s[i]]

IsSpace(c) == c = 32 \/ c \in 9..13

\* str.strip()
Strip(s) ==
    LET keep == {i \in 1..Len(s) : ~IsSpace(s[i])}
    IN  IF keep = {} THEN <<>> ELSE SubSeq(s, SetMin(keep), SetMax(keep))

\* `c in s` for one character
HasChar(s, c) == \E i \in 1..Len(s) : s[i] = c

\* `t in s` for a substring
Contains(s, t) ==
    \E i \in 0..(Len(s) - Len(t)) : SubSeq(s, i + 1, i + Len(t)) = t

\* s < t in Python's str order (by code point, a proper prefix is smaller)
StrLess(s, t) ==
    \E k \in 1..(Len(t)) :
        /\ \A i \in 1..(k - 1) : i <= Len(s) /\ s[i] = t[i]
        /\ k - 1 <= Len(s)
        /\ (k > Len(s) \/ s[k] < t[k])

\* sorted(S)[0] for a non-empty set of strings
StrMin(S) == CHOOSE s \in S : \A t \in S : t = s \/ StrLess(s, t)

----------------------------------------------------------------------------
\* String constants of the source

\* "unknown@example.com"
UnknownEmail ==
    <<117, 110, 107, 110, 111, 119, 110, 64, 101, 120, 97, 109, 112, 108, 101,
      46, 99, 111, 109>>

\* "@users.noreply.github.com"
NoreplyGithub ==
    <<64, 117, 115, 101, 114, 115, 46, 110, 111, 114, 101, 112, 108, 121, 46,
      103, 105, 116, 104, 117, 98, 46, 99, 111, 109>>

\* "@github.com"
AtGithub == <<64, 103, 105, 116, 104, 117, 98, 46, 99, 111, 109>>

----------------------------------------------------------------------------
\* stats.py: normalize_email

\* re.search(r'([^+]+)\+', e): the leftmost position that starts a non-empty
\* run of non-'+' characters followed by a '+'; group(1) is that run.
\* <<>> stands for "no match" (group(1) is never empty).
PlusPrefixMatch(e) ==
    LET starts == {i \in 1..Len(e) :
                      e[i] # 43 /\ \E j \in (i + 1)..Len(e) : e[j] = 43}
    IN  IF starts = {} THEN <<>>
        ELSE LET i == SetMin(starts)
                 j == SetMin({k \in (i + 1)..Len(e) : e[k] = 43})
             IN  SubSeq(e, i, j - 1)

normalize_email(email) ==
    IF email = <<>> THEN UnknownEmail
    ELSE LET e == Strip(Lower(email))
         IN  IF HasChar(e, 43) /\ Contains(e, NoreplyGithub)
                  /\ PlusPrefixMatch(e) # <<>>
             THEN PlusPrefixMatch(e) \o AtGithub
             ELSE e

----------------------------------------------------------------------------
\* Inputs of normalize_email: [space] local @ domain [space], in two cases

\* local parts: "al", "AL", "1+al", "12345+alice", "+al", "1+a+l"
LocalParts ==
    { <<97, 108>>, <<65, 76>>, <<49, 43, 97, 108>>,
      <<49, 50, 51, 52, 53, 43, 97, 108, 105, 99, 101>>,
      <<43, 97, 108>>, <<49, 43, 97, 43, 108>> }

\* "@users.noreply."
AtUsersNoreply ==
    <<64, 117, 115, 101, 114, 115, 46, 110, 111, 114, 101, 112, 108, 121, 46>>

\* hosts: "github.com", "gitlab.com", "GitHub.com"
Hosts ==
    { <<103, 105, 116, 104, 117, 98, 46, 99, 111, 109>>,
      <<103, 105, 116, 108, 97, 98, 46, 99, 111, 109>>,
      <<71, 105, 116, 72, 117, 98, 46, 99, 111, 109>> }

Domains ==
    {AtUsersNoreply \o h : h \in Hosts} \cup {<<64>> \o h : h \in Hosts}

Paddings == {<<>>, <<32>>}

EmailInputs ==
    {<<>>} \cup
    {p \o l \o d \o q : p \in Paddings, l \in LocalParts, d \in Domains,
                        q \in Paddings}

NormIdle == n_pc = "idle" /\ n_email = <<>> /\ n_result = <<>>

\* one call of normalize_email
Normalize ==
    /\ n_pc = "start"
    /\ n_result' = normalize_email(n_email)
    /\ n_pc' = "done"
    /\ UNCHANGED <<n_email, IdVars, RepoVars, MergeVars, ScoreVars, CliVars>>

----------------------------------------------------------------------------
\* identity.py: the mapping store and get_canonical_identity

\* a dict as a function; <<>> is the empty dict
MapPut(m, k, v) == [x \in (DOMAIN m) \cup {k} |-> IF x = k THEN v ELSE m[x]]

MapDel(m, k) == [x \in (DOMAIN m) \ {k} |-> m[x]]

\* the mappings load_identity_mappings returns when no file exists
EmptyMappings == [canonical_names |-> <<>>, canonical_emails |-> <<>>]

add_identity_mapping(mappings, name_or_email, canonical_identity) ==
    IF HasChar(name_or_email, 64)
    THEN [mappings EXCEPT !.canonical_emails =
              MapPut(@, Lower(name_or_email), canonical_identity)]
    ELSE [mappings EXCEPT !.canonical_names =
              MapPut(@, name_or_email, canonical_identity)]

remove_identity_mapping(mappings, name_or_email) ==
    IF HasChar(name_or_email, 64)
    THEN [mappings EXCEPT !.canonical_emails = MapDel(@, Lower(name_or_email))]
    ELSE [mappings EXCEPT !.canonical_names = MapDel(@, name_or_email)]

\* a lookup that tries the name table before the e-mail table
get_canonical_identity_NameFirst(mappings, name, email) ==
    IF name # <<>> /\ name \in DOMAIN mappings.canonical_names
    THEN mappings.canonical_names[name]
    ELSE IF email # <<>> /\ Lower(email) \in DOMAIN mappings.canonical_emails
         THEN mappings.canonical_emails[Lower(email)]
         ELSE name

get_canonical_identity(mappings, name, email) ==
    IF email # <<>> /\ Lower(email) \in DOMAIN mappings.canonical_emails
    THEN mappings.canonical_emails[Lower(email)]
    ELSE IF name # <<>> /\ name \in DOMAIN mappings.canonical_names
         THEN mappings.canonical_names[name]
         ELSE name

\* names and e-mails of the model
Alice == <<65, 108, 105, 99, 101>>

AliceSmith == <<65, 108, 105, 99, 101, 32, 83, 109, 105, 116, 104>>

alice == <<97, 108, 105, 99, 101>>

Bob == <<66, 111, 98>>

Carol == <<67, 97, 114, 111, 108>>

\* "a@x.com"
a_x_com == <<97, 64, 120, 46, 99, 111, 109>>

\* "A@X.com"
A_X_com == <<65, 64, 88, 46, 99, 111, 109>>

\* "b@y.com"
b_y_com == <<98, 64, 121, 46, 99, 111, 109>>

\* "c@z.com"
c_z_com == <<99, 64, 122, 46, 99, 111, 109>>

\* "bob@x.com"
bob_x_com == <<98, 111, 98, 64, 120, 46, 99, 111, 109>>

\* "Bob@X.com"
Bob_X_com == <<66, 111, 98, 64, 88, 46, 99, 111, 109>>

\* arguments of `gitstats identity add|remove <repo> <name_or_email> ...`
MappingKeys == {alice, Alice, <<>>, a_x_com, A_X_com}

MappingTargets == {Alice, Carol}

LookupNames == {alice, Alice, Bob, <<>>}

LookupEmails == {a_x_com, A_X_com, b_y_com, <<>>}

IdIdle ==
    /\ identity_store = EmptyMappings
    /\ i_pc = "idle"
    /\ i_name = <<>> /\ i_email = <<>> /\ i_result = <<>>

AddIdentityMapping ==
    \E k \in MappingKeys, c \in MappingTargets :
        /\ i_pc = "idle"
        /\ identity_store' = add_identity_mapping(identity_store, k, c)
        /\ UNCHANGED <<i_pc, i_name, i_email, i_result, NormVars, RepoVars,
                       MergeVars, ScoreVars, CliVars>>

RemoveIdentityMapping ==
    \E k \in MappingKeys :
        /\ i_pc = "idle"
        /\ identity_store' = remove_identity_mapping(identity_store, k)
        /\ UNCHANGED <<i_pc, i_name, i_email, i_result, NormVars, RepoVars,
                       MergeVars, ScoreVars, CliVars>>

\* one call of get_canonical_identity on the mappings stored by the
\* add/remove commands before it; the arguments and the result are kept
Lookup ==
    \E n \in LookupNames, e \in LookupEmails :
        /\ i_pc = "idle"
        /\ i_pc' = "returned"
        /\ i_name' = n
        /\ i_email' = e
        /\ i_result' = get_canonical_identity(identity_store, n, e)
        /\ UNCHANGED <<identity_store, NormVars, RepoVars, MergeVars,
                       ScoreVars, CliVars>>

----------------------------------------------------------------------------
\* datetime: the calendar arithmetic the source relies on

IsLeap(y) == y % 4 = 0 /\ (y % 100 # 0 \/ y % 400 = 0)

\* number of days before January 1st of year y
DaysBeforeYear(y) ==
    LET p == y - 1 IN p * 365 + (p \div 4) - (p \div 100) + (p \div 400)

DaysInMonth(y, m) ==
    IF m = 2 THEN (IF IsLeap(y) THEN 29 ELSE 28)
    ELSE IF m \in {4, 6, 9, 11} THEN 30 ELSE 31

\* number of days in year y before the first day of month m
DaysBeforeMonth(y, m) ==
    <<0, 31, 59, 90, 120, 151, 181, 212, 243, 273, 304, 334>>[m]
        + (IF m > 2 /\ IsLeap(y) THEN 1 ELSE 0)

\* datetime(y, m, d).toordinal()
YmdToOrd(y, m, d) == DaysBeforeYear(y) + DaysBeforeMonth(y, m) + d

\* .year, .month, .day of the date with ordinal n
OrdYear(n) ==
    CHOOSE y \in (n \div 366)..((n \div 365) + 1) :
        DaysBeforeYear(y) < n /\ n <= DaysBeforeYear(y + 1)

OrdMonth(n) ==
    LET y == OrdYear(n)
        r == n - DaysBeforeYear(y)
    IN  CHOOSE m \in 1..12 :
            DaysBeforeMonth(y, m) < r
                /\ r <= DaysBeforeMonth(y, m) + DaysInMonth(y, m)

OrdDay(n) ==
    LET y == OrdYear(n)
    IN  n - DaysBeforeYear(y) - DaysBeforeMonth(y, OrdMonth(n))

\* .weekday(): Monday is 0
Weekday(n) == (n + 6) % 7

\* ordinal of the Monday that starts ISO week 1 of year y
IsoWeek1Monday(y) ==
    LET firstday == YmdToOrd(y, 1, 1)
        firstweekday == (firstday + 6) % 7
        week1monday == firstday - firstweekday
    IN  IF firstweekday > 3 THEN week1monday + 7 ELSE week1monday

\* .isocalendar()[0:2]: <<ISO year, ISO week>>
IsoCalendar(n) ==
    LET year == OrdYear(n)
        week == (n - IsoWeek1Monday(year)) \div 7
    IN  IF week < 0
        THEN <<year - 1, ((n - IsoWeek1Monday(year - 1)) \div 7) + 1>>
        ELSE IF week >= 52 /\ n >= IsoWeek1Monday(year + 1)
             THEN <<year + 1, 1>>
             ELSE <<year, week + 1>>

\* a < b for datetimes <<ordinal, second of day>>
DtLess(a, b) == a[1] < b[1] \/ (a[1] = b[1] /\ a[2] < b[2])

\* (a - b).days: timedelta normalises to 0 <= seconds < 86400
DeltaDays(a, b) == (a[1] - b[1]) + (IF a[2] < b[2] THEN -1 ELSE 0)

\* strftime('%Y-%m-%d'), the ISO year-week key and strftime('%Y-%m')
DayKey(dt) == <<OrdYear(dt[1]), OrdMonth(dt[1]), OrdDay(dt[1])>>

WeekKey(dt) == IsoCalendar(dt[1])

MonthKey(dt) == <<OrdYear(dt[1]), OrdMonth(dt[1])>>

\* datetime.strptime(key, '%Y-%m-%d')
ParseDay(key) == <<YmdToOrd(key[1], key[2], key[3]), 0>>

----------------------------------------------------------------------------
\* stats.py: get_repo_stats, identity pre-pass and e-mail consolidation
\*
\* A commit is [name, email, date, parents, files]: the author's raw name and
\* e-mail, committed_date as a local datetime, the number of parents, and the
\* diff against the first parent as a sequence of
\* [a_path, a_blob, b_blob, added, deleted] (a_path <<>> is None; the blobs
\* say whether the file exists on each side; added/deleted count the '+'/'-'
\* lines of the patch text).

\* the exclusion list kept with the identity store of the repository
get_excluded_developers == excluded_store

\* [dev.lower() for dev in exclude_developers + config_excluded_developers]
AllExcluded(cmdline, config) ==
    {Lower((cmdline \o config)[k]) : k \in 1..Len(cmdline \o config)}

\* the test on the raw author made before the identity is resolved
ExcludedRaw(c, excluded) ==
    \/ Lower(c.name) \in excluded
    \/ Lower(normalize_email(c.email)) \in excluded
    \/ Lower(c.email) \in excluded

\* a skip test that is not repeated on the resolved identity
Skipped_RawOnly(c, mappings, excluded) == ExcludedRaw(c, excluded)

\* a commit is skipped by either test
Skipped(c, mappings, excluded) ==
    \/ ExcludedRaw(c, excluded)
    \/ Lower(get_canonical_identity(mappings, c.name,
                                     normalize_email(c.email))) \in excluded

\* one iteration of the first pass over repo.iter_commits('--all')
FirstPassStep(acc, c, mappings, excluded) ==
    IF Skipped(c, mappings, excluded) THEN acc
    ELSE LET author_email == normalize_email(c.email)
             canonical_identity ==
                 get_canonical_identity(mappings, c.name, author_email)
             known == canonical_identity \in DOMAIN acc.author_emails
         IN  [email_to_author |->
                  IF author_email \in DOMAIN acc.email_to_author
                  THEN acc.email_to_author
                  ELSE MapPut(acc.email_to_author, author_email,
                              canonical_identity),
              author_emails |->
                  MapPut(acc.author_emails, canonical_identity,
                         (IF known THEN acc.author_emails[canonical_identity]
                          ELSE {}) \cup {author_email}),
              author_order |->
                  IF known THEN acc.author_order
                  ELSE Append(acc.author_order, canonical_identity)]

\* one iteration of the consolidation loop, for `author`
ConsolidateStep(acc, author, emails_of) ==
    IF author \in acc.processed_authors THEN acc
    ELSE LET emails == emails_of[author]
             related_authors ==
                 {author} \cup
                 {other \in DOMAIN emails_of :
                      other # author /\ emails \cap emails_of[other] # {}}
             all_emails == UNION {emails_of[o] : o \in related_authors}
             canonical_email == StrMin(all_emails)
         IN  [processed_authors |->
                  acc.processed_authors \cup related_authors,
              consolidated_emails |->
                  [e \in (DOMAIN acc.consolidated_emails) \cup all_emails |->
                      IF e \in all_emails THEN canonical_email
                      ELSE acc.consolidated_emails[e]]]

RECURSIVE ConsolidateFrom(_, _, _, _)
ConsolidateFrom(acc, order, k, emails_of) ==
    IF k > Len(order) THEN acc
    ELSE ConsolidateFrom(ConsolidateStep(acc, order[k], emails_of),
                         order, k + 1, emails_of)

\* the consolidated_emails dict left by the loop over author_emails.items()
ConsolidateEmails(order, emails_of) ==
    ConsolidateFrom([processed_authors |-> {}, consolidated_emails |-> <<>>],
                    order, 1, emails_of).consolidated_emails

----------------------------------------------------------------------------
\* stats.py: get_repo_stats, commit selection and the aggregation pass

\* iter_commits(..., no_merges=True) followed by the since/until filter;
\* since and until are <<>> (None) or a 'YYYY-MM-DD' key <<y, m, d>>
SelectCommits(cs, since_arg, until_arg) ==
    LET Keep(c) ==
            /\ c.parents <= 1
            /\ since_arg = <<>> \/ ~DtLess(c.date, ParseDay(since_arg))
            /\ until_arg = <<>> \/ ~DtLess(ParseDay(until_arg), c.date)
    IN  SelectSeq(cs, Keep)

\* the value the stats defaultdict creates for a new identity
NewStats ==
    [name |-> {}, email |-> {}, commits |-> 0,
     lines_added |-> 0, lines_deleted |-> 0, net_lines |-> 0,
     files_changed |-> 0, first_commit |-> <<>>, last_commit |-> <<>>,
     commit_dates |-> <<>>, commit_days |-> <<>>, commit_weeks |-> <<>>,
     commit_months |-> <<>>]

\* Counter()[k] = n: the bucket is set, not incremented
CounterAdd_Sets(counter, k, n) == MapPut(counter, k, n)

\* Counter()[k] += n
CounterAdd(counter, k, n) ==
    MapPut(counter, k, (IF k \in DOMAIN counter THEN counter[k] ELSE 0) + n)

\* exclude.split(','), as the set of its pieces
SplitComma(s) ==
    LET cuts == {0} \cup {i \in 1..Len(s) : s[i] = 44} \cup {Len(s) + 1}
    IN  {SubSeq(s, lo + 1, hi - 1) :
            <<lo, hi>> \in {q \in cuts \X cuts :
                               /\ q[1] < q[2]
                               /\ ~\E m \in cuts : q[1] < m /\ m < q[2]}}

\* one diff item added to the record of the commit's identity
DiffItemStep(data, item, exclude_arg) ==
    IF /\ exclude_arg # <<>>
       /\ item.a_path # <<>>
       /\ \E pattern \in SplitComma(exclude_arg) :
              Contains(item.a_path, pattern)
    THEN data
    ELSE IF item.a_path = <<>> THEN data
    ELSE IF item.a_blob /\ item.b_blob
         THEN [data EXCEPT !.files_changed = @ + 1,
                           !.lines_added = @ + item.added,
                           !.lines_deleted = @ + item.deleted,
                           !.net_lines = @ + (item.added - item.deleted)]
         ELSE [data EXCEPT !.files_changed = @ + 1]

RECURSIVE DiffFrom(_, _, _, _)
DiffFrom(data, files, k, exclude_arg) ==
    IF k > Len(files) THEN data
    ELSE DiffFrom(DiffItemStep(data, files[k], exclude_arg), files, k + 1,
                  exclude_arg)

\* a count that is only made for a commit that has a parent
CountCommit_SkipsRoot(data, c, exclude_arg) ==
    LET commit_date == c.date
        counted ==
            [data EXCEPT
                !.name = @ \cup {c.name},
                !.email = @ \cup {c.email},
                !.commits = IF c.parents > 0 THEN @ + 1 ELSE @,
                !.commit_dates = Append(@, commit_date),
                !.commit_days = CounterAdd(@, DayKey(commit_date), 1),
                !.commit_weeks = CounterAdd(@, WeekKey(commit_date), 1),
                !.commit_months = CounterAdd(@, MonthKey(commit_date), 1),
                !.first_commit =
                    IF @ = <<>> \/ DtLess(commit_date, @)
                    THEN commit_date ELSE @,
                !.last_commit =
                    IF @ = <<>> \/ DtLess(@, commit_date)
                    THEN commit_date ELSE @]
    IN  IF c.parents > 0 THEN DiffFrom(counted, c.files, 1, exclude_arg)
        ELSE counted

\* a count that keeps as first_commit the date of the first commit seen
CountCommit_FirstSeen(data, c, exclude_arg) ==
    LET commit_date == c.date
        counted ==
            [data EXCEPT
                !.name = @ \cup {c.name},
                !.email = @ \cup {c.email},
                !.commits = @ + 1,
                !.commit_dates = Append(@, commit_date),
                !.commit_days = CounterAdd(@, DayKey(commit_date), 1),
                !.commit_weeks = CounterAdd(@, WeekKey(commit_date), 1),
                !.commit_months = CounterAdd(@, MonthKey(commit_date), 1),
                !.first_commit = IF @ = <<>> THEN commit_date ELSE @,
                !.last_commit =
                    IF @ = <<>> \/ DtLess(@, commit_date)
                    THEN commit_date ELSE @]
    IN  IF c.parents > 0 THEN DiffFrom(counted, c.files, 1, exclude_arg)
        ELSE counted

\* the body of `for commit in commits` for a commit that is not skipped:
\* the record of its canonical identity after the commit
CountCommit(data, c, exclude_arg) ==
    LET commit_date == c.date
        counted ==
            [data EXCEPT
                !.name = @ \cup {c.name},
                !.email = @ \cup {c.email},
                !.commits = @ + 1,
                !.commit_dates = Append(@, commit_date),
                !.commit_days = CounterAdd(@, DayKey(commit_date), 1),
                !.commit_weeks = CounterAdd(@, WeekKey(commit_date), 1),
                !.commit_months = CounterAdd(@, MonthKey(commit_date), 1),
                !.first_commit =
                    IF @ = <<>> \/ DtLess(commit_date, @)
                    THEN commit_date ELSE @,
                !.last_commit =
                    IF @ = <<>> \/ DtLess(@, commit_date)
                    THEN commit_date ELSE @]
    IN  IF c.parents > 0 THEN DiffFrom(counted, c.files, 1, exclude_arg)
        ELSE counted

\* one iteration of `for commit in commits`. The consolidated e-mail is
\* looked up by the source (canonical_email) and then not used: the key of
\* stats is the canonical identity.
ProcessOne(st, c, mappings, excluded, exclude_arg) ==
    IF Skipped(c, mappings, excluded) THEN st
    ELSE LET canonical_identity ==
                 get_canonical_identity(mappings, c.name,
                                        normalize_email(c.email))
             data == IF canonical_identity \in DOMAIN st
                     THEN st[canonical_identity] ELSE NewStats
         IN  MapPut(st, canonical_identity, CountCommit(data, c, exclude_arg))

\* the stats dict after the loop `for commit in commits` has run over cs
RECURSIVE AggregateFrom(_, _, _, _, _, _)
AggregateFrom(st, cs, k, mappings, excluded, exclude_arg) ==
    IF k > Len(cs) THEN st
    ELSE AggregateFrom(ProcessOne(st, cs[k], mappings, excluded, exclude_arg),
                       cs, k + 1, mappings, excluded, exclude_arg)

Aggregate(cs, mappings, excluded, exclude_arg) ==
    AggregateFrom(<<>>, cs, 1, mappings, excluded, exclude_arg)

----------------------------------------------------------------------------
\* stats.py: get_repo_stats, the frequency metrics of one identity.
\* A quotient a / b is kept exact, as the pair <<a, b>> with b > 0.

RECURSIVE SeqSum(_)
SeqSum(s) == IF s = <<>> THEN 0 ELSE s[1] + SeqSum(Tail(s))

SeqMax(s) == SetMax({s[k] : k \in 1..Len(s)})

\* sorted() of a list of datetimes
RECURSIVE SortDatesFrom(_, _, _)
SortDatesFrom(acc, s, k) ==
    IF k > Len(s) THEN acc
    ELSE LET before == Cardinality({j \in 1..Len(acc) : ~DtLess(s[k], acc[j])})
         IN  SortDatesFrom(SubSeq(acc, 1, before) \o <<s[k]>>
                               \o SubSeq(acc, before + 1, Len(acc)),
                           s, k + 1)

SortDates(s) == SortDatesFrom(<<>>, s, 1)

\* sorted() of the keys of commit_days, as ordinals ('%Y-%m-%d' keys sort
\* in calendar order, as the datetimes parsed from them do)
RECURSIVE SortedOrdinals(_)
SortedOrdinals(S) ==
    IF S = {} THEN <<>>
    ELSE <<SetMin(S)>> \o SortedOrdinals(S \ {SetMin(S)})

ActiveDays(commit_days) ==
    SortedOrdinals({ParseDay(key)[1] : key \in DOMAIN commit_days})

is_workday(date) == Weekday(date[1]) < 5

count_workdays(start_date, end_date) ==
    LET days == DeltaDays(end_date, start_date)
    IN  Cardinality({i \in 0..days : is_workday(<<start_date[1] + i, 0>>)})

\* number of ISO weeks of the window from `first` to `today_dt`
TotalWeeks(first, today_dt) ==
    LET first_week == IsoCalendar(first[1])[2]
        first_year == IsoCalendar(first[1])[1]
        today_week == IsoCalendar(today_dt[1])[2]
        today_year == IsoCalendar(today_dt[1])[1]
    IN  IF first_year = today_year THEN today_week - first_week + 1
        ELSE LET years_between == today_year - first_year - 1
                 weeks_in_first_year ==
                     IsoCalendar(YmdToOrd(first_year, 12, 28))[2]
                         - first_week + 1
                 weeks_in_last_year == today_week
             IN  weeks_in_first_year + (years_between * 52)
                     + weeks_in_last_year

\* a division that is not guarded
Ratio_Unguarded(n, total) == <<n, total>>

\* n / total if total > 0 else 0
Ratio(n, total) == IF total > 0 THEN <<n, total>> ELSE <<0, 1>>

\* total_days .. commit_week_ratio against the window from `start` to today
WindowMetrics(data, start, today_dt) ==
    LET total_days == DeltaDays(today_dt, start) + 1
        days_with_commits == Cardinality(DOMAIN data.commit_days)
        total_weeks == TotalWeeks(start, today_dt)
        weeks_with_commits == Cardinality(DOMAIN data.commit_weeks)
    IN  [total_days |-> total_days,
         days_with_commits |-> days_with_commits,
         commit_day_ratio |-> Ratio(days_with_commits, total_days),
         total_weeks |-> total_weeks,
         weeks_with_commits |-> weeks_with_commits,
         commit_week_ratio |-> Ratio(weeks_with_commits, total_weeks)]

\* total_months .. commit_month_ratio for the months from `first` to `last`
MonthMetrics(data, first, last) ==
    LET first_month == OrdYear(first[1]) * 12 + OrdMonth(first[1])
        last_month == OrdYear(last[1]) * 12 + OrdMonth(last[1])
        total_months == last_month - first_month + 1
        months_with_commits == Cardinality(DOMAIN data.commit_months)
    IN  [total_months |-> total_months,
         months_with_commits |-> months_with_commits,
         commit_month_ratio |-> Ratio(months_with_commits, total_months)]

\* seconds from a to b
GapSeconds(a, b) == (b[1] - a[1]) * 86400 + (b[2] - a[2])

\* avg_gap_days .. weekday_commit_ratio
GapMetrics(data) ==
    IF Len(data.commit_dates) > 1
    THEN LET sorted_dates == SortDates(data.commit_dates)
             n == Len(sorted_dates) - 1
             gaps == [k \in 1..n |->
                         GapSeconds(sorted_dates[k], sorted_dates[k + 1])]
             workday_gaps ==
                 [k \in 1..n |->
                     LET workday_gap ==
                             count_workdays(sorted_dates[k],
                                            sorted_dates[k + 1]) - 1
                     IN  IF workday_gap < 0 THEN 0 ELSE workday_gap]
             weekday_commits ==
                 Cardinality({k \in 1..Len(data.commit_dates) :
                                 is_workday(data.commit_dates[k])})
         IN  [avg_gap_days |-> <<SeqSum(gaps), 86400 * n>>,
              max_gap_days |-> <<SeqMax(gaps), 86400>>,
              workday_gaps |-> workday_gaps,
              avg_workday_gap |-> <<SeqSum(workday_gaps), n>>,
              weekday_commit_ratio |->
                  <<weekday_commits, Len(data.commit_dates)>>]
    ELSE [avg_gap_days |-> <<0, 1>>,
          max_gap_days |-> <<0, 1>>,
          workday_gaps |-> <<>>,
          avg_workday_gap |-> <<0, 1>>,
          weekday_commit_ratio |->
              IF data.commit_dates # <<>>
              THEN (IF is_workday(data.commit_dates[1])
                    THEN <<1, 1>> ELSE <<0, 1>>)
              ELSE <<0, 1>>]

\* the loop with the whole distance to the next active day taken as gap
RECURSIVE PlainStreaksFrom_WholeGap(_, _, _)
PlainStreaksFrom_WholeGap(acc, days, k) ==
    IF k > Len(days)
    THEN [acc EXCEPT !.total_streak_days = @ + acc.current_streak]
    ELSE LET gap_days == days[k] - days[k - 1]
         IN  IF gap_days = 1
             THEN PlainStreaksFrom_WholeGap(
                      [acc EXCEPT !.current_streak = @ + 1], days, k + 1)
             ELSE PlainStreaksFrom_WholeGap(
                      [total_streak_days |->
                           acc.total_streak_days + acc.current_streak,
                       total_gap_days |-> acc.total_gap_days + gap_days,
                       current_streak |-> 1], days, k + 1)

\* the loop that sums streaks and gaps over sorted_active_days, from index k
\* (1-based); acc is [total_streak_days, total_gap_days, current_streak]
RECURSIVE PlainStreaksFrom(_, _, _)
PlainStreaksFrom(acc, days, k) ==
    IF k > Len(days)
    THEN [acc EXCEPT !.total_streak_days = @ + acc.current_streak]
    ELSE LET gap_days == days[k] - days[k - 1]
         IN  IF gap_days = 1
             THEN PlainStreaksFrom(
                      [acc EXCEPT !.current_streak = @ + 1], days, k + 1)
             ELSE PlainStreaksFrom(
                      [total_streak_days |->
                           acc.total_streak_days + acc.current_streak,
                       total_gap_days |-> acc.total_gap_days + gap_days - 1,
                       current_streak |-> 1], days, k + 1)

\* active_day_gaps .. streak_gap_ratio
ActiveDayMetrics(data) ==
    IF Cardinality(DOMAIN data.commit_days) > 1
    THEN LET sorted_active_days == ActiveDays(data.commit_days)
             n == Len(sorted_active_days) - 1
             active_day_gaps ==
                 [k \in 1..n |->
                     sorted_active_days[k + 1] - sorted_active_days[k]]
             s == PlainStreaksFrom(
                      [total_streak_days |-> 0, total_gap_days |-> 0,
                       current_streak |-> 1], sorted_active_days, 2)
         IN  [active_day_gaps |-> active_day_gaps,
              avg_active_day_gap |-> <<SeqSum(active_day_gaps), n>>,
              max_active_day_gap |-> SeqMax(active_day_gaps),
              total_streak_days |-> s.total_streak_days,
              total_gap_days |-> s.total_gap_days,
              streak_gap_ratio |->
                  IF s.total_gap_days > 0
                  THEN <<s.total_streak_days, s.total_gap_days + 1>>
                  ELSE <<s.total_streak_days, 1>>]
    ELSE [active_day_gaps |-> <<>>,
          avg_active_day_gap |-> <<0, 1>>,
          max_active_day_gap |-> 0,
          total_streak_days |-> Cardinality(DOMAIN data.commit_days),
          total_gap_days |-> 0,
          streak_gap_ratio |-> <<Cardinality(DOMAIN data.commit_days), 1>>]

\* the loop over sorted_days without the bridge from Friday to Monday
RECURSIVE MaxStreakFrom_NoBridge(_, _, _)
MaxStreakFrom_NoBridge(acc, days, k) ==
    IF k > Len(days) THEN acc.max_streak
    ELSE LET days_diff == days[k] - days[k - 1]
             is_over_weekend == FALSE
         IN  IF days_diff = 1 \/ is_over_weekend
             THEN MaxStreakFrom_NoBridge(
                      [current_streak |-> acc.current_streak + 1,
                       max_streak |->
                           IF acc.current_streak + 1 > acc.max_streak
                           THEN acc.current_streak + 1 ELSE acc.max_streak],
                      days, k + 1)
             ELSE MaxStreakFrom_NoBridge([acc EXCEPT !.current_streak = 1],
                                         days, k + 1)

\* the loop over sorted_days that bridges Friday to Monday, from index k;
\* acc is [current_streak, max_streak]
RECURSIVE MaxStreakFrom(_, _, _)
MaxStreakFrom(acc, days, k) ==
    IF k > Len(days) THEN acc.max_streak
    ELSE LET days_diff == days[k] - days[k - 1]
             is_over_weekend ==
                 /\ days_diff <= 3
                 /\ Weekday(days[k - 1]) = 4
                 /\ Weekday(days[k]) = 0
         IN  IF days_diff = 1 \/ is_over_weekend
             THEN MaxStreakFrom(
                      [current_streak |-> acc.current_streak + 1,
                       max_streak |->
                           IF acc.current_streak + 1 > acc.max_streak
                           THEN acc.current_streak + 1 ELSE acc.max_streak],
                      days, k + 1)
             ELSE MaxStreakFrom([acc EXCEPT !.current_streak = 1], days, k + 1)

\* max_streak with the streak counters started at 0
MaxStreak_FromZero(data) ==
    LET sorted_days == ActiveDays(data.commit_days)
    IN  IF sorted_days # <<>>
        THEN MaxStreakFrom([current_streak |-> 0, max_streak |-> 0],
                           sorted_days, 2)
        ELSE 0

\* data['max_streak']
MaxStreak(data) ==
    LET sorted_days == ActiveDays(data.commit_days)
    IN  IF sorted_days # <<>>
        THEN MaxStreakFrom([current_streak |-> 1, max_streak |-> 1],
                           sorted_days, 2)
        ELSE 0

\* Counter(data['name']).most_common(1)[0][0]: data['name'] is a set, every
\* name counts once, and the first of equal counts is the first the set
\* yields, which str hashing leaves open: any of the names
DisplayNames(data) == data.name

\* the metrics get_repo_stats adds to the record of one identity; the window
\* and the month span both run from its first commit to today
FinalizeRepoIdentity(data, today_dt, display_name) ==
    data @@ WindowMetrics(data, data.first_commit, today_dt)
         @@ MonthMetrics(data, data.first_commit, today_dt)
         @@ GapMetrics(data)
         @@ ActiveDayMetrics(data)
         @@ [max_streak |-> MaxStreak(data), display_name |-> display_name]

----------------------------------------------------------------------------
\* get_repo_stats as a state machine: the first pass and the aggregation
\* pass one step per commit, the consolidation and the selection between
\* them, and the metrics

all_excluded_developers ==
    AllExcluded(exclude_developers, get_excluded_developers)

\* the state before get_repo_stats is called
RepoIdle ==
    /\ g_pc = "idle" /\ idx = 0
    /\ excluded_store = <<>>
    /\ repo = <<>> /\ since = <<>> /\ until = <<>> /\ exclude = <<>>
    /\ exclude_developers = <<>>
    /\ email_to_author = <<>> /\ author_emails = <<>> /\ author_order = <<>>
    /\ consolidated_emails = <<>> /\ commits = <<>> /\ stats = <<>>

\* the locals of get_repo_stats on entry
RepoEntry ==
    /\ g_pc = "first_pass" /\ idx = 0
    /\ email_to_author = <<>> /\ author_emails = <<>> /\ author_order = <<>>
    /\ consolidated_emails = <<>> /\ commits = <<>> /\ stats = <<>>

\* first pass, collect author names and e-mails: one iteration of the loop
\* over repo.iter_commits('--all')
CollectAuthors ==
    /\ g_pc = "first_pass"
    /\ idx < Len(repo)
    /\ LET r == FirstPassStep(
                    [email_to_author |-> email_to_author,
                     author_emails |-> author_emails,
                     author_order |-> author_order],
                    repo[idx + 1], identity_store, all_excluded_developers)
       IN  /\ email_to_author' = r.email_to_author
           /\ author_emails' = r.author_emails
           /\ author_order' = r.author_order
    /\ idx' = idx + 1
    /\ UNCHANGED <<g_pc, consolidated_emails, commits, stats, RepoArgs,
                   excluded_store, NormVars, IdVars, MergeVars, ScoreVars,
                   CliVars>>

\* after the first pass: build the consolidated mapping of all e-mails for
\* the same author
Consolidate ==
    /\ g_pc = "first_pass"
    /\ idx = Len(repo)
    /\ consolidated_emails' = ConsolidateEmails(author_order, author_emails)
    /\ g_pc' = "select"
    /\ idx' = 0
    /\ UNCHANGED <<email_to_author, author_emails, author_order, commits,
                   stats, RepoArgs, excluded_store, NormVars, IdVars,
                   MergeVars, ScoreVars, CliVars>>

\* determine which commits to analyze
Select ==
    /\ g_pc = "select"
    /\ commits' = SelectCommits(repo, since, until)
    /\ g_pc' = "process"
    /\ UNCHANGED <<email_to_author, author_emails, author_order,
                   consolidated_emails, stats, idx, RepoArgs, excluded_store,
                   NormVars, IdVars, MergeVars, ScoreVars, CliVars>>

\* process each commit: one iteration
ProcessCommit ==
    /\ g_pc = "process"
    /\ idx < Len(commits)
    /\ stats' = ProcessOne(stats, commits[idx + 1], identity_store,
                           all_excluded_developers, exclude)
    /\ idx' = idx + 1
    /\ UNCHANGED <<g_pc, email_to_author, author_emails, author_order,
                   consolidated_emails, commits, RepoArgs, excluded_store,
                   NormVars, IdVars, MergeVars, ScoreVars, CliVars>>

\* calculate commit frequency metrics for each developer, and return
Finalize ==
    /\ g_pc = "process"
    /\ idx = Len(commits)
    /\ \E shown \in [DOMAIN stats ->
                         UNION {DisplayNames(stats[i]) : i \in DOMAIN stats}] :
           /\ \A i \in DOMAIN stats : shown[i] \in DisplayNames(stats[i])
           /\ stats' = [i \in DOMAIN stats |->
                            FinalizeRepoIdentity(stats[i], <<today, 0>>,
                                                 shown[i])]
    /\ g_pc' = "done"
    /\ UNCHANGED <<email_to_author, author_emails, author_order,
                   consolidated_emails, commits, idx, RepoArgs,
                   excluded_store, NormVars, IdVars, MergeVars, ScoreVars,
                   CliVars>>

NextRepo ==
    CollectAuthors \/ Consolidate \/ Select \/ ProcessCommit \/ Finalize

----------------------------------------------------------------------------
\* cli.py: merge_stats

\* the value the merged_stats defaultdict creates for a new identity
NewMerged ==
    [name |-> {}, email |-> {}, commits |-> 0,
     lines_added |-> 0, lines_deleted |-> 0, net_lines |-> 0,
     files_changed |-> 0, first_commit |-> <<>>, last_commit |-> <<>>,
     commit_dates |-> <<>>, commit_days |-> <<>>, commit_weeks |-> <<>>,
     commit_months |-> <<>>, commit_hashes |-> {}]

\* append the dates of `dates`, from index k, whose '%Y-%m-%d %H:%M:%S' text
\* is not yet among those of acc (a datetime of the model has no fraction of
\* a second, so the text identifies it)
RECURSIVE AddUniqueDates(_, _, _)
AddUniqueDates(acc, dates, k) ==
    IF k > Len(dates) THEN acc
    ELSE AddUniqueDates(
             IF \E j \in 1..Len(acc) : acc[j] = dates[k] THEN acc
             ELSE Append(acc, dates[k]),
             dates, k + 1)

RECURSIVE CounterMerge(_, _)
CounterMerge(into, from) ==
    IF DOMAIN from = {} THEN into
    ELSE LET k == CHOOSE x \in DOMAIN from : TRUE
         IN  CounterMerge(CounterAdd(into, k, from[k]), MapDel(from, k))

\* MergeIdentity with the commit count kept as an additive counter
MergeIdentity_AddsCounts(merged, data) ==
    LET hashes ==
            IF "commit_hashes" \in DOMAIN data
            THEN merged.commit_hashes \cup data.commit_hashes
            ELSE merged.commit_hashes
    IN  [merged EXCEPT
            !.name = @ \cup data.name,
            !.email = @ \cup data.email,
            !.commit_hashes = hashes,
            !.commits = @ + data.commits,
            !.lines_added = @ + data.lines_added,
            !.lines_deleted = @ + data.lines_deleted,
            !.net_lines = @ + data.net_lines,
            !.files_changed = @ + data.files_changed,
            !.commit_dates = AddUniqueDates(@, data.commit_dates, 1),
            !.commit_days = CounterMerge(@, data.commit_days),
            !.commit_weeks = CounterMerge(@, data.commit_weeks),
            !.commit_months = CounterMerge(@, data.commit_months),
            !.first_commit =
                IF @ = <<>> \/ (data.first_commit # <<>>
                                 /\ DtLess(data.first_commit, @))
                THEN data.first_commit ELSE @,
            !.last_commit =
                IF @ = <<>> \/ (data.last_commit # <<>>
                                 /\ DtLess(@, data.last_commit))
                THEN data.last_commit ELSE @]

\* the body of `for identity, data in stats.items()`: the merged record of
\* the identity after one repository's record of it. A record without
\* 'commit_hashes' adds no hash; commit_hashes given as a list is its set.
MergeIdentity(merged, data) ==
    LET hashes ==
            IF "commit_hashes" \in DOMAIN data
            THEN merged.commit_hashes \cup data.commit_hashes
            ELSE merged.commit_hashes
    IN  [merged EXCEPT
            !.name = @ \cup data.name,
            !.email = @ \cup data.email,
            !.commit_hashes = hashes,
            !.commits = Cardinality(hashes),
            !.lines_added = @ + data.lines_added,
            !.lines_deleted = @ + data.lines_deleted,
            !.net_lines = @ + data.net_lines,
            !.files_changed = @ + data.files_changed,
            !.commit_dates = AddUniqueDates(@, data.commit_dates, 1),
            !.commit_days = CounterMerge(@, data.commit_days),
            !.commit_weeks = CounterMerge(@, data.commit_weeks),
            !.commit_months = CounterMerge(@, data.commit_months),
            !.first_commit =
                IF @ = <<>> \/ (data.first_commit # <<>>
                                 /\ DtLess(data.first_commit, @))
                THEN data.first_commit ELSE @,
            !.last_commit =
                IF @ = <<>> \/ (data.last_commit # <<>>
                                 /\ DtLess(@, data.last_commit))
                THEN data.last_commit ELSE @]

\* a fold in which the record of the result set folded last replaces the
\* merged one
MergeOne_LastWins(merged, one) ==
    [i \in (DOMAIN merged) \cup (DOMAIN one) |->
        IF i \in DOMAIN one THEN MergeIdentity(NewMerged, one[i])
        ELSE merged[i]]

\* one iteration of `for stats in stats_list`
MergeOne(merged, one) ==
    [i \in (DOMAIN merged) \cup (DOMAIN one) |->
        IF i \in DOMAIN one
        THEN MergeIdentity(IF i \in DOMAIN merged THEN merged[i]
                           ELSE NewMerged, one[i])
        ELSE merged[i]]

\* min() of a non-empty set of datetimes
DtMin(S) == CHOOSE d \in S : \A e \in S : ~DtLess(e, d)

\* the start of the overall period: the overall first commit, or the since
\* date when that is later
PeriodStart(overall_start, since_arg) ==
    IF since_arg # <<>>
    THEN (IF DtLess(overall_start, ParseDay(since_arg))
          THEN ParseDay(since_arg) ELSE overall_start)
    ELSE overall_start

\* the metrics merge_stats adds to the merged record of one identity: the
\* day and week ratios against the overall period, the month ratio against
\* the identity's own first and last commit
FinalizeMergedIdentity(data, period_start, today_dt, display_name) ==
    data @@ WindowMetrics(data, period_start, today_dt)
         @@ (IF data.last_commit # <<>>
             THEN MonthMetrics(data, data.first_commit, data.last_commit)
             ELSE [total_months |-> 0, months_with_commits |-> 0,
                   commit_month_ratio |-> <<0, 1>>])
         @@ GapMetrics(data)
         @@ ActiveDayMetrics(data)
         @@ [max_streak |-> MaxStreak(data), display_name |-> display_name]

\* the state before merge_stats is called
MergeIdle ==
    /\ m_pc = "idle" /\ stats_list = <<>> /\ m_since = <<>>
    /\ repo_index = 0 /\ merged_stats = <<>> /\ overall_start_date = <<>>

\* the locals of merge_stats on entry
MergeEntry ==
    /\ m_pc = "merging" /\ repo_index = 0 /\ merged_stats = <<>>
    /\ overall_start_date = <<>>

\* merge stats from each repository: one iteration
MergeRepo ==
    /\ m_pc = "merging"
    /\ repo_index < Len(stats_list)
    /\ repo_index' = repo_index + 1
    /\ merged_stats' = MergeOne(merged_stats, stats_list[repo_index + 1])
    /\ UNCHANGED <<m_pc, stats_list, m_since, overall_start_date, NormVars,
                   IdVars, RepoVars, ScoreVars, CliVars>>

\* nothing to recalculate: return (merged_stats, None)
MergeReturnNone ==
    /\ m_pc = "merging"
    /\ repo_index = Len(stats_list)
    /\ \A i \in DOMAIN merged_stats : merged_stats[i].first_commit = <<>>
    /\ m_pc' = "done"
    /\ UNCHANGED <<stats_list, m_since, repo_index, merged_stats,
                   overall_start_date, NormVars, IdVars, RepoVars, ScoreVars,
                   CliVars>>

\* recalculate the frequency metrics of each developer over the overall
\* period, and return (merged_stats, overall_start_date)
MergeFinalize ==
    /\ m_pc = "merging"
    /\ repo_index = Len(stats_list)
    /\ \E i \in DOMAIN merged_stats : merged_stats[i].first_commit # <<>>
    /\ LET valid == {i \in DOMAIN merged_stats :
                        merged_stats[i].first_commit # <<>>}
           start == DtMin({merged_stats[i].first_commit : i \in valid})
           period_start_date == PeriodStart(start, m_since)
       IN  /\ overall_start_date' = start
           /\ \E shown \in [valid ->
                   UNION {DisplayNames(merged_stats[i]) : i \in valid}] :
                  /\ \A i \in valid :
                         shown[i] \in DisplayNames(merged_stats[i])
                  /\ merged_stats' =
                         [i \in DOMAIN merged_stats |->
                             IF i \in valid
                             THEN FinalizeMergedIdentity(
                                      merged_stats[i], period_start_date,
                                      <<today, 0>>, shown[i])
                             ELSE merged_stats[i]]
    /\ m_pc' = "done"
    /\ UNCHANGED <<stats_list, m_since, repo_index, NormVars, IdVars,
                   excluded_store, g_pc, idx, repo, since, until, exclude,
                   exclude_developers, today, RepoLocals, ScoreVars, CliVars>>

NextMerge == MergeRepo \/ MergeReturnNone \/ MergeFinalize

\* the state before handle_stats_command is called
CliIdle ==
    /\ h_pc = "idle" /\ h_args = <<>> /\ h_since = <<>> /\ h_index = 0
    /\ h_stats_list = <<>> /\ h_errors = <<>> /\ h_shown = <<>>

----------------------------------------------------------------------------
\* display.py: get_commit_frequency_score. Numbers are exact fractions
\* <<numerator, denominator>> with a positive denominator.

RECURSIVE Gcd(_, _)
Gcd(a, b) == IF b = 0 THEN a ELSE Gcd(b, a % b)

Abs(n) == IF n < 0 THEN -n ELSE n

\* the fraction n/d in lowest terms
Frac(n, d) ==
    LET g == Gcd(Abs(n), d)
    IN  IF n = 0 THEN <<0, 1>> ELSE <<n \div g, d \div g>>

FracLess(x, y) == x[1] * y[2] < y[1] * x[2]

FracMin(x, y) == IF FracLess(y, x) THEN y ELSE x

FracAdd(x, y) == Frac(x[1] * y[2] + y[1] * x[2], x[2] * y[2])

FracSub(x, y) == Frac(x[1] * y[2] - y[1] * x[2], x[2] * y[2])

\* x * k and x / k for an integer k > 0
FracTimes(x, k) == Frac(x[1] * k, x[2])

FracOver(x, k) == Frac(x[1], x[2] * k)

\* round(x, 1), in tenths: the nearest tenth; when x lies exactly halfway
\* between two tenths the float that stands for it decides, either of them
Round1(x) ==
    LET t == (10 * x[1]) \div x[2]
        r == 10 * x[1] - t * x[2]
    IN  IF 2 * r < x[2] THEN {t}
        ELSE IF 2 * r > x[2] THEN {t + 1}
        ELSE {t, t + 1}

\* the score without the penalty for large gaps
FrequencySum_NoPenalty(data) ==
    LET day_ratio_score ==
            FracMin(FracTimes(data.commit_day_ratio, 10), <<5, 1>>)
        week_ratio_score ==
            FracMin(FracTimes(data.commit_week_ratio, 5), <<3, 1>>)
        streak_score == FracMin(Frac(data.max_streak, 5), <<2, 1>>)
    IN  FracAdd(FracAdd(day_ratio_score, week_ratio_score), streak_score)

\* the local `score` of get_commit_frequency_score
FrequencySum(data) ==
    LET day_ratio_score ==
            FracMin(FracTimes(data.commit_day_ratio, 10), <<5, 1>>)
        week_ratio_score ==
            FracMin(FracTimes(data.commit_week_ratio, 5), <<3, 1>>)
        streak_score == FracMin(Frac(data.max_streak, 5), <<2, 1>>)
        gap_penalty ==
            IF FracLess(<<7, 1>>, data.avg_gap_days)
            THEN FracMin(FracOver(FracSub(data.avg_gap_days, <<7, 1>>), 7),
                         <<2, 1>>)
            ELSE <<0, 1>>
    IN  FracSub(FracAdd(FracAdd(day_ratio_score, week_ratio_score),
                        streak_score), gap_penalty)

\* get_commit_frequency_score with the sum returned unclamped
get_commit_frequency_score_Unclamped(data) ==
    {<<t, 10>> : t \in Round1(FrequencySum(data))}

\* the values get_commit_frequency_score(data) can return, as tenths over 10
get_commit_frequency_score(data) ==
    {<<IF t > 100 THEN 100 ELSE IF t < 0 THEN 0 ELSE t, 10>> :
        t \in Round1(FrequencySum(data))}

\* the state before get_commit_frequency_score is called
ScoreIdle == s_pc = "idle" /\ s_data = <<>> /\ s_score = <<>>

GetCommitFrequencyScore ==
    /\ s_pc = "start"
    /\ s_score' \in get_commit_frequency_score(s_data)
    /\ s_pc' = "returned"
    /\ UNCHANGED <<s_data, NormVars, IdVars, RepoVars, MergeVars, CliVars>>

NextScore == GetCommitFrequencyScore

----------------------------------------------------------------------------
\* Inputs of get_repo_stats

\* all lists of at most n elements of S
Lists(S, n) == UNION {[1..k -> S] : k \in 0..n}

\* the day get_repo_stats runs: Monday 2021-01-04
Today == YmdToOrd(2021, 1, 4)

\* "a.py", "b.lock"
a_py == <<97, 46, 112, 121>>

b_lock == <<98, 46, 108, 111, 99, 107>>

ModifiedFile ==
    [a_path |-> a_py, a_blob |-> TRUE, b_blob |-> TRUE,
     added |-> 3, deleted |-> 1]

AddedFile ==
    [a_path |-> b_lock, a_blob |-> FALSE, b_blob |-> TRUE,
     added |-> 5, deleted |-> 0]

Commit(name, email, date, parents, files) ==
    [name |-> name, email |-> email, date |-> date, parents |-> parents,
     files |-> files]

\* commits of several authors; one root commit and one merge commit
AuthorCommits ==
    { Commit(Alice, a_x_com, <<Today - 3, 36000>>, 1, <<ModifiedFile>>),
      Commit(AliceSmith, a_x_com, <<Today - 2, 36000>>, 1,
             <<ModifiedFile, AddedFile>>),
      Commit(alice, b_y_com, <<Today - 2, 72000>>, 0, <<>>),
      Commit(Bob, bob_x_com, <<Today - 1, 36000>>, 1, <<AddedFile>>),
      Commit(Bob, Bob_X_com, <<Today - 1, 72000>>, 2, <<>>),
      Commit(Carol, c_z_com, <<Today, 36000>>, 1, <<ModifiedFile>>) }

\* identity stores written by `identity add`
AliceMapping == add_identity_mapping(EmptyMappings, alice, Alice)

CarolMapping == add_identity_mapping(EmptyMappings, b_y_com, Carol)

StoreChoices == {EmptyMappings, AliceMapping, CarolMapping}

\* "CAROL"
CAROL == <<67, 65, 82, 79, 76>>

\* --exclude-developers with the configured exclusion list
ExcludeChoices ==
    {<< <<>>, <<>> >>, << <<bob_x_com>>, <<>> >>, << <<CAROL>>, <<Bob>> >>}

InitRepo ==
    /\ NormIdle
    /\ i_pc = "idle" /\ i_name = <<>> /\ i_email = <<>> /\ i_result = <<>>
    /\ identity_store \in StoreChoices
    /\ \E x \in ExcludeChoices :
           exclude_developers = x[1] /\ excluded_store = x[2]
    /\ repo \in Lists(AuthorCommits, MaxCommits)
    /\ since = <<>> /\ until = <<>> /\ exclude = <<>>
    /\ today = Today
    /\ RepoEntry
    /\ MergeIdle /\ ScoreIdle /\ CliIdle

\* the commits of Alice and Bob that are not merge commits
OrderCommits == {c \in AuthorCommits : c.parents <= 1 /\ c.name # Carol}

\* a repository of at most MaxOrderCommits different commits, in any order
InitReorder ==
    /\ NormIdle
    /\ i_pc = "idle" /\ i_name = <<>> /\ i_email = <<>> /\ i_result = <<>>
    /\ identity_store \in StoreChoices
    /\ excluded_store = <<>>
    /\ exclude_developers = <<>>
    /\ repo \in {cs \in Lists(OrderCommits, MaxOrderCommits) :
                    \A j, k \in 1..Len(cs) : j # k => cs[j] # cs[k]}
    /\ since = <<>> /\ until = <<>> /\ exclude = <<>>
    /\ today = Today
    /\ RepoEntry
    /\ MergeIdle /\ ScoreIdle /\ CliIdle

\* --since and --until of a run: none, or a day of the commits
DateChoices == {<<>>, <<2021, 1, 2>>, <<2021, 1, 3>>}

\* a repository of at most MaxOrderCommits different commits, analysed with
\* date filters
InitFilter ==
    /\ NormIdle
    /\ i_pc = "idle" /\ i_name = <<>> /\ i_email = <<>> /\ i_result = <<>>
    /\ identity_store = EmptyMappings
    /\ excluded_store = <<>>
    /\ exclude_developers = <<>>
    /\ repo \in {cs \in Lists(AuthorCommits, MaxOrderCommits) :
                    \A j, k \in 1..Len(cs) : j < k =>
                        DtLess(cs[k].date, cs[j].date)}
    /\ since \in DateChoices /\ until \in DateChoices
    /\ exclude = <<>>
    /\ today = Today
    /\ RepoEntry
    /\ MergeIdle /\ ScoreIdle /\ CliIdle

\* commits of three authors whose e-mails overlap in a chain:
\* Alice uses a@x.com and b@y.com, Bob b@y.com and c@z.com, Carol c@z.com
ChainCommits ==
    { Commit(Alice, a_x_com, <<Today - 1, 36000>>, 1, <<>>),
      Commit(Alice, b_y_com, <<Today - 1, 36000>>, 1, <<>>),
      Commit(Bob, b_y_com, <<Today - 1, 36000>>, 1, <<>>),
      Commit(Bob, c_z_com, <<Today - 1, 36000>>, 1, <<>>),
      Commit(Carol, c_z_com, <<Today - 1, 36000>>, 1, <<>>) }

InitChain ==
    /\ NormIdle
    /\ i_pc = "idle" /\ i_name = <<>> /\ i_email = <<>> /\ i_result = <<>>
    /\ identity_store = EmptyMappings
    /\ excluded_store = <<>>
    /\ exclude_developers = <<>>
    /\ repo \in Lists(ChainCommits, MaxChainCommits)
    /\ since = <<>> /\ until = <<>> /\ exclude = <<>>
    /\ today = Today
    /\ RepoEntry
    /\ MergeIdle /\ ScoreIdle /\ CliIdle

\* a repository in which Alice commits every Monday at ten, the last time
\* today, newest commit first
WeeklyCommits(n) ==
    [k \in 1..n |->
        Commit(Alice, a_x_com, <<Today - 7 * (k - 1), 36000>>, 1, <<>>)]

InitWeekly ==
    /\ NormIdle
    /\ i_pc = "idle" /\ i_name = <<>> /\ i_email = <<>> /\ i_result = <<>>
    /\ identity_store = EmptyMappings
    /\ excluded_store = <<>>
    /\ exclude_developers = <<>>
    /\ repo \in {WeeklyCommits(n) : n \in 0..MaxWeeks}
    /\ since = <<>> /\ until = <<>> /\ exclude = <<>>
    /\ today = Today
    /\ RepoEntry
    /\ MergeIdle /\ ScoreIdle /\ CliIdle

----------------------------------------------------------------------------
\* Inputs of merge_stats

\* what get_repo_stats returns for the commits cs, with no identity mapping,
\* no exclusion and no date filter
RepoResult(cs) ==
    LET st == Aggregate(SelectCommits(cs, <<>>, <<>>), EmptyMappings,
                        AllExcluded(<<>>, <<>>), <<>>)
    IN  [i \in DOMAIN st |->
            FinalizeRepoIdentity(st[i], <<Today, 0>>,
                                 CHOOSE n \in DisplayNames(st[i]) : TRUE)]

\* a result set that carries 'commit_hashes': that of the commits hs[k].commit
\* with, for each identity, the hashes of its commits
HashedResult(hs) ==
    LET r == RepoResult([k \in 1..Len(hs) |-> hs[k].commit])
        Identity(c) ==
            get_canonical_identity(EmptyMappings, c.name,
                                   normalize_email(c.email))
    IN  [i \in DOMAIN r |->
            r[i] @@ [commit_hashes |->
                        {hs[k].hexsha : k \in {j \in 1..Len(hs) :
                            Identity(hs[j].commit) = i}}]]

\* the commits of the repositories: Alice yesterday at noon and today at
\* nine, Bob eight days ago
MergeCommits ==
    << [hexsha |-> "h1",
        commit |-> Commit(Alice, a_x_com, <<Today - 1, 43200>>, 1,
                          <<ModifiedFile>>)],
       [hexsha |-> "h2",
        commit |-> Commit(Alice, a_x_com, <<Today, 32400>>, 1,
                          <<AddedFile>>)],
       [hexsha |-> "h3",
        commit |-> Commit(Bob, bob_x_com, <<Today - 8, 36000>>, 1,
                          <<ModifiedFile>>)] >>

\* the histories of at most MaxRepoCommits of these commits, oldest last as
\* iter_commits yields them
Histories ==
    {SelectSeq(MergeCommits, LAMBDA h : h \in S) :
        S \in {T \in SUBSET {MergeCommits[k] : k \in 1..Len(MergeCommits)} :
                  Cardinality(T) <= MaxRepoCommits}}

RepoResults == {RepoResult([k \in 1..Len(hs) |-> hs[k].commit]) :
                   hs \in Histories}

HashedResults == {HashedResult(hs) : hs \in Histories}

\* --since of the multi-repository run: none, or 2021-01-01
SinceChoices == {<<>>, <<2021, 1, 1>>}

InitMerge ==
    /\ NormIdle /\ IdIdle /\ RepoIdle
    /\ stats_list \in Lists(RepoResults \cup HashedResults, MaxRepos)
    /\ m_since \in SinceChoices
    /\ today = Today
    /\ MergeEntry
    /\ ScoreIdle /\ CliIdle

\* at most MaxRepoCommits of these commits, each once, in any order
CommitOrders ==
    {cs \in Lists({MergeCommits[k].commit : k \in 1..Len(MergeCommits)},
                  MaxRepoCommits) :
        \A j, k \in 1..Len(cs) : j # k => cs[j] # cs[k]}

\* one repository analysed by get_repo_stats, in any commit order, and the
\* results of others merged by merge_stats
InitAnalyzeAndMerge ==
    /\ NormIdle
    /\ i_pc = "idle" /\ i_name = <<>> /\ i_email = <<>> /\ i_result = <<>>
    /\ identity_store = EmptyMappings
    /\ excluded_store = <<>>
    /\ exclude_developers = <<>>
    /\ repo \in CommitOrders
    /\ since = <<>> /\ until = <<>> /\ exclude = <<>>
    /\ today = Today
    /\ RepoEntry
    /\ stats_list \in Lists(RepoResults, MaxRepos)
    /\ m_since = <<>>
    /\ MergeEntry
    /\ ScoreIdle /\ CliIdle

----------------------------------------------------------------------------
\* cli.py: handle_stats_command

\* the parameters of get_repo_stats (stats.py:49), and the keywords of the
\* call at cli.py:517-525
get_repo_stats_parameters ==
    {"repo_path", "since", "until", "branch", "exclude",
     "exclude_developers"}

CallKeywords ==
    {"since", "until", "branch", "exclude", "exclude_developers", "verbose"}

\* the call raises TypeError, an unexpected keyword argument, before the
\* body of get_repo_stats runs
CallRaisesTypeError == ~(CallKeywords \subseteq get_repo_stats_parameters)

\* what is at a repository path: a repository with commits, a directory
\* that is no repository, no such path, or a repository without the
\* requested branch; get_repo_stats prints and calls sys.exit(1) for the
\* last three
FatalKinds == {"invalid", "missing", "no_branch"}

\* what get_repo_stats returns for the commits cs with a since date, no
\* identity mapping and no exclusion
RepoResultSince(cs, since_arg) ==
    LET st == Aggregate(SelectCommits(cs, since_arg, <<>>), EmptyMappings,
                        AllExcluded(<<>>, <<>>), <<>>)
    IN  [i \in DOMAIN st |->
            FinalizeRepoIdentity(st[i], <<Today, 0>>,
                                 CHOOSE n \in DisplayNames(st[i]) : TRUE)]

\* merged_stats after the loop `for stats in stats_list`, from index k
RECURSIVE MergeFold(_, _, _)
MergeFold(merged, list, k) ==
    IF k > Len(list) THEN merged
    ELSE MergeFold(MergeOne(merged, list[k]), list, k + 1)

\* what merge_stats(list, since_arg) returns
MergedResult(list, since_arg) ==
    LET merged == MergeFold(<<>>, list, 1)
        valid == {i \in DOMAIN merged : merged[i].first_commit # <<>>}
        start == DtMin({merged[i].first_commit : i \in valid})
    IN  IF valid = {} THEN [stats |-> merged, overall_start_date |-> <<>>]
        ELSE [stats |->
                  [i \in DOMAIN merged |->
                      IF i \in valid
                      THEN FinalizeMergedIdentity(
                               merged[i], PeriodStart(start, since_arg),
                               <<Today, 0>>,
                               CHOOSE n \in DisplayNames(merged[i]) : TRUE)
                      ELSE merged[i]],
              overall_start_date |-> start]

\* the checks and the defaults before the loop: without a path the command
\* exits; without --all-commits and --since, since is 30 days ago
EnterStats ==
    /\ h_pc = "start"
    /\ IF h_args.repo_paths = <<>>
       THEN h_pc' = "exited" /\ UNCHANGED h_since
       ELSE /\ h_pc' = "loop"
            /\ h_since' =
                   IF ~h_args.all_commits /\ h_args.since = <<>>
                   THEN DayKey(<<today - 30, 0>>)
                   ELSE h_args.since
    /\ UNCHANGED <<h_args, h_index, h_stats_list, h_errors, h_shown,
                   NormVars, IdVars, RepoVars, MergeVars, ScoreVars>>

\* process each repository: one iteration. An Exception of the call is
\* reported and the loop goes on; sys.exit raises SystemExit, which
\* `except Exception` does not catch
AnalyzeRepository ==
    /\ h_pc = "loop"
    /\ h_index < Len(h_args.repo_paths)
    /\ LET repo_path == h_args.repo_paths[h_index + 1]
       IN  IF CallRaisesTypeError
           THEN /\ h_errors' = Append(h_errors, h_index + 1)
                /\ h_index' = h_index + 1
                /\ UNCHANGED <<h_pc, h_stats_list>>
           ELSE IF repo_path.kind \in FatalKinds
           THEN /\ h_pc' = "exited"
                /\ UNCHANGED <<h_index, h_stats_list, h_errors>>
           ELSE /\ h_stats_list' =
                       Append(h_stats_list,
                              RepoResultSince(repo_path.commits, h_since))
                /\ h_index' = h_index + 1
                /\ UNCHANGED <<h_pc, h_errors>>
    /\ UNCHANGED <<h_args, h_since, h_shown, NormVars, IdVars, RepoVars,
                   MergeVars, ScoreVars>>

\* after the loop: merge and display several results, display a single
\* one, or report that no commits were found
DisplayStats ==
    /\ h_pc = "loop"
    /\ h_index = Len(h_args.repo_paths)
    /\ h_shown' =
           IF Len(h_stats_list) > 1
           THEN [is_merged |-> TRUE] @@
                MergedResult(h_stats_list, h_args.since)
           ELSE IF h_stats_list # <<>>
           THEN [is_merged |-> FALSE, stats |-> h_stats_list[1]]
           ELSE <<>>
    /\ h_pc' = "done"
    /\ UNCHANGED <<h_args, h_since, h_index, h_stats_list, h_errors,
                   NormVars, IdVars, RepoVars, MergeVars, ScoreVars>>

NextCli == EnterStats \/ AnalyzeRepository \/ DisplayStats

\* the repository paths of the command line
RepoPaths ==
    {[kind |-> "repository", commits |-> WeeklyCommits(2)],
     [kind |-> "repository",
      commits |-> [k \in 1..Len(MergeCommits) |-> MergeCommits[k].commit]]}
    \cup {[kind |-> f, commits |-> <<>>] : f \in FatalKinds}

InitCli ==
    /\ NormIdle /\ IdIdle /\ RepoIdle /\ MergeIdle /\ ScoreIdle
    /\ today = Today
    /\ h_pc = "start"
    /\ h_args \in [repo_paths : Lists(RepoPaths, MaxPaths),
                    since : SinceChoices, all_commits : BOOLEAN]
    /\ h_since = <<>> /\ h_index = 0
    /\ h_stats_list = <<>> /\ h_errors = <<>> /\ h_shown = <<>>

----------------------------------------------------------------------------
\* Repositories for the streak metrics

\* the first day of the window: Tuesday 2020-12-22
WindowStart == Today - 13

\* a repository in which Alice commits once on each day of S, at the second
\* `sec` of the day, and once more an hour later on the first of them
DayCommits(S, sec) ==
    LET days == SortedOrdinals(S)
        n == Len(days)
    IN  [k \in 1..n |->
            Commit(Alice, a_x_com, <<days[n + 1 - k], sec>>, 1, <<>>)]
        \o (IF n = 0 THEN <<>>
            ELSE <<Commit(Alice, a_x_com, <<days[1], sec + 3600>>, 1, <<>>)>>)

\* the active days S of the window, held by two repositories: all in the
\* second, split between them, or all in both
DaySplits(S) ==
    { <<{}, S>>,
      <<{d \in S : d < WindowStart + 4}, {d \in S : d >= WindowStart + 4}>>,
      <<S, S>> }

InitStreak ==
    /\ NormIdle /\ IdIdle /\ RepoIdle /\ ScoreIdle /\ CliIdle
    /\ \E S \in SUBSET (WindowStart..(WindowStart + WindowDays - 1)) :
           \E split \in DaySplits(S) :
               stats_list = <<RepoResult(DayCommits(split[1], 36000)),
                              RepoResult(DayCommits(split[2], 72000))>>
    /\ m_since = <<>>
    /\ today = Today
    /\ MergeEntry

----------------------------------------------------------------------------
\* Inputs of get_commit_frequency_score

\* the records handed to get_commit_frequency_score: ratios up to and
\* above 1, streaks, average gaps from none to very large
DayRatioArgs == {<<0, 1>>, <<1, 8>>, <<1, 2>>, <<1, 1>>, <<2, 1>>}

WeekRatioArgs == {<<0, 1>>, <<1, 3>>, <<3, 5>>, <<1, 1>>, <<55, 54>>}

AvgGapArgs ==
    {<<0, 1>>, <<1, 1>>, <<7, 1>>, <<15, 2>>, <<21, 1>>, <<1000, 1>>}

InitScore ==
    /\ NormIdle /\ IdIdle /\ RepoIdle /\ MergeIdle /\ CliIdle
    /\ today = Today
    /\ s_pc = "start"
    /\ s_data \in [commit_day_ratio : DayRatioArgs,
                    commit_week_ratio : WeekRatioArgs,
                    max_streak : 0..MaxStreakArg,
                    avg_gap_days : AvgGapArgs]
    /\ s_score = <<>>

----------------------------------------------------------------------------
\* Specifications

SpecWeekly == InitWeekly /\ [][NextRepo]_vars

SpecScore == InitScore /\ [][NextScore]_vars

SpecStreak == InitStreak /\ [][NextMerge]_vars

SpecCli == InitCli /\ [][NextCli]_vars

SpecMerge == InitMerge /\ [][NextMerge]_vars

\* merge_stats is called once get_repo_stats has returned
NextAnalyzeAndMerge == NextRepo \/ (g_pc = "done" /\ NextMerge)

SpecAnalyzeAndMerge == InitAnalyzeAndMerge /\ [][NextAnalyzeAndMerge]_vars

Spec == InitRepo /\ [][NextRepo]_vars

SpecChain == InitChain /\ [][NextRepo]_vars

SpecFilter == InitFilter /\ [][NextRepo]_vars

SpecReorder == InitReorder /\ [][NextRepo]_vars

InitNormalize ==
    /\ n_pc = "start" /\ n_email \in EmailInputs /\ n_result = <<>>
    /\ IdIdle /\ RepoIdle /\ MergeIdle /\ ScoreIdle /\ CliIdle
    /\ today = Today

NextNormalize == Normalize

SpecNormalize == InitNormalize /\ [][NextNormalize]_vars

InitIdentity ==
    NormIdle /\ IdIdle /\ RepoIdle /\ MergeIdle /\ ScoreIdle /\ CliIdle
    /\ today = Today

NextIdentity == AddIdentityMapping \/ RemoveIdentityMapping \/ Lookup

SpecIdentity == InitIdentity /\ [][NextIdentity]_vars

----------------------------------------------------------------------------
\* Properties

\* the identity a commit's author resolves to
ResolvedIdentity(c) ==
    get_canonical_identity(identity_store, c.name, normalize_email(c.email))

\* the combined exclusion list names the author of c: an entry equals,
\* ignoring case, the raw name, the normalized e-mail, the raw e-mail or the
\* resolved identity
AuthorExcluded(c) ==
    LET entries == exclude_developers \o excluded_store
    IN  \E k \in 1..Len(entries) :
            Lower(entries[k]) \in
                {Lower(c.name), Lower(normalize_email(c.email)),
                 Lower(c.email), Lower(ResolvedIdentity(c))}

RECURSIVE TotalCommits(_)
TotalCommits(st) ==
    IF DOMAIN st = {} THEN 0
    ELSE LET i == CHOOSE j \in DOMAIN st : TRUE
         IN  st[i].commits + TotalCommits(MapDel(st, i))

\* the commits the aggregation pass has gone through and not excluded
CountedSoFar == {k \in 1..idx : ~AuthorExcluded(commits[k])}

\* C1: during and after the aggregation pass, the commit counts of all
\* identities add up to the number of non-merge commits processed so far
\* minus those whose author is excluded, and each identity's count is the
\* number of such commits that resolve to it: every commit that is not
\* excluded adds exactly 1 to exactly one identity.
C1_CommitCountConservation ==
    g_pc \in {"process", "done"} =>
        /\ TotalCommits(stats) = Cardinality(CountedSoFar)
        /\ \A i \in DOMAIN stats :
               stats[i].commits =
                   Cardinality({k \in CountedSoFar :
                                   ResolvedIdentity(commits[k]) = i})

\* C1 witness: a finished run over a repository with a merge commit, an
\* excluded commit and a counted one
C1_Witness ==
    /\ g_pc = "done"
    /\ Len(commits) < Len(repo)
    /\ \E k \in 1..Len(commits) : AuthorExcluded(commits[k])
    /\ TotalCommits(stats) >= 1

\* the identities linked to those of S by a chain of shared e-mails
RECURSIVE ChainClosure(_)
ChainClosure(S) ==
    LET more == S \cup {j \in DOMAIN author_emails :
                           \E i \in S :
                               author_emails[i] \cap author_emails[j] # {}}
    IN  IF more = S THEN S ELSE ChainClosure(more)

GroupEmails(i) == UNION {author_emails[j] : j \in ChainClosure({i})}

\* C2: after the consolidation loop every e-mail of every identity of a
\* chain of identities that share e-mails pairwise maps, in
\* consolidated_emails, to the smallest e-mail of the whole chain, whatever
\* the order in which the identities were first seen.
C2_TransitiveConsolidation ==
    g_pc \in {"select", "process", "done"} =>
        \A i \in DOMAIN author_emails :
            \A e \in GroupEmails(i) :
                /\ e \in DOMAIN consolidated_emails
                /\ consolidated_emails[e] = StrMin(GroupEmails(i))

\* C3: the three commits of ("Alice", a@x.com), ("Alice Smith", a@x.com) and
\* ("alice", b@y.com), with the only mapping "alice" -> "Alice" and nothing
\* excluded, give one entry "Alice" with 3 commits and all three names.
C3_EndToEndScenario ==
    ( /\ g_pc = "done"
      /\ identity_store = AliceMapping
      /\ exclude_developers \o excluded_store = <<>>
      /\ Len(commits) = 3
      /\ {<<commits[k].name, commits[k].email>> : k \in 1..Len(commits)} =
             {<<Alice, a_x_com>>, <<AliceSmith, a_x_com>>, <<alice, b_y_com>>} )
    => /\ DOMAIN stats = {Alice}
       /\ stats[Alice].commits = 3
       /\ stats[Alice].name = {Alice, AliceSmith, alice}

\* C4: a commit whose author the exclusion list names (by raw name,
\* normalized or raw e-mail, or resolved identity, ignoring case) adds
\* nothing: at every point of the aggregation pass the mapping is the one
\* aggregation gives for the other commits alone with nothing excluded, so
\* an identity whose commits are all excluded is absent from it.
C4_ExcludedCommitsContributeNothing ==
    g_pc = "process" =>
        LET Kept(c) == ~AuthorExcluded(c)
        IN  /\ stats = Aggregate(SelectSeq(SubSeq(commits, 1, idx), Kept),
                                 identity_store, {}, exclude)
            /\ \A i \in DOMAIN stats :
                   \E k \in CountedSoFar : ResolvedIdentity(commits[k]) = i

\* C4 witness: the pass is over, one of its commits was excluded by its
\* resolved identity alone, another was counted
C4_Witness ==
    /\ g_pc = "process"
    /\ idx = Len(commits)
    /\ \E k \in 1..Len(commits) :
           /\ AuthorExcluded(commits[k])
           /\ ~ExcludedRaw(commits[k], all_excluded_developers)
    /\ stats # <<>>

\* C5 as stated: the identity mapped to the lower-cased e-mail when the
\* e-mail table has it, else the identity mapped to the raw name when the
\* name table has it, else the raw name.
C5_LookupOrder_AsStated ==
    i_pc = "returned" =>
        i_result =
            IF Lower(i_email) \in DOMAIN identity_store.canonical_emails
            THEN identity_store.canonical_emails[Lower(i_email)]
            ELSE IF i_name \in DOMAIN identity_store.canonical_names
                 THEN identity_store.canonical_names[i_name]
                 ELSE i_name

\* C5 amended: the same order, where an empty e-mail and an empty name are
\* never looked up: an empty name is returned as it is even when the name
\* table maps it.
C5_LookupOrder ==
    i_pc = "returned" =>
        LET by_email ==
                /\ i_email # <<>>
                /\ Lower(i_email) \in DOMAIN identity_store.canonical_emails
            by_name ==
                /\ i_name # <<>>
                /\ i_name \in DOMAIN identity_store.canonical_names
        IN  /\ by_email =>
                   i_result = identity_store.canonical_emails[Lower(i_email)]
            /\ ~by_email /\ by_name =>
                   i_result = identity_store.canonical_names[i_name]
            /\ ~by_email /\ ~by_name => i_result = i_name

\* C5 witness: both tables have an entry for the author, with different
\* identities, and the e-mail's identity was returned
C5_Witness ==
    /\ i_pc = "returned"
    /\ Lower(i_email) \in DOMAIN identity_store.canonical_emails
    /\ i_name \in DOMAIN identity_store.canonical_names
    /\ identity_store.canonical_names[i_name] #
           identity_store.canonical_emails[Lower(i_email)]
    /\ i_result = identity_store.canonical_emails[Lower(i_email)]

\* the ways to read a lower-cased, trimmed e-mail e as
\* id+username@users.noreply.<host>: <<position of '+', position of '@'>>
NoreplyReadings(e) ==
    {q \in (1..Len(e)) \X (1..Len(e)) :
        /\ e[q[1]] = 43
        /\ 1 < q[1] /\ q[1] + 1 < q[2]
        /\ q[2] + Len(AtUsersNoreply) <= Len(e)
        /\ SubSeq(e, q[2], q[2] + Len(AtUsersNoreply) - 1) = AtUsersNoreply
        /\ ~HasChar(SubSeq(e, 1, q[2] - 1), 64)}

\* C6: normalize_email lower-cases and trims, and rewrites
\* id+username@users.noreply.<host> to username@<host>.
C6_NoreplyRewrite ==
    (n_pc = "done" /\ n_email # <<>>) =>
        LET e == Strip(Lower(n_email))
        IN  IF NoreplyReadings(e) = {} THEN n_result = e
            ELSE \E q \in NoreplyReadings(e) :
                     n_result =
                         SubSeq(e, q[1] + 1, q[2] - 1) \o <<64>>
                             \o SubSeq(e, q[2] + Len(AtUsersNoreply), Len(e))

----------------------------------------------------------------------------
\* merge_stats: commit counts

\* the hashes the result sets folded so far carry for identity i
FoldedHashes(i) ==
    UNION {stats_list[r][i].commit_hashes :
              r \in {q \in 1..repo_index :
                        /\ i \in DOMAIN stats_list[q]
                        /\ "commit_hashes" \in DOMAIN stats_list[q][i]}}

\* C7: merging a result set R of get_repo_stats with itself gives every
\* identity the commit count it has in R: no doubling and no loss.
C7_DedupIdempotence ==
    (/\ m_pc = "done"
     /\ Len(stats_list) = 2
     /\ stats_list[1] \in RepoResults
     /\ stats_list[2] = stats_list[1]) =>
        \A i \in DOMAIN stats_list[1] :
            /\ i \in DOMAIN merged_stats
            /\ merged_stats[i].commits = stats_list[1][i].commits

\* C8: when the result sets carry commit_hashes, after each of them is
\* folded in, an identity's merged commits is the number of distinct hashes
\* the folded result sets hold for it (a hash in two of them counts once),
\* and equals the size of its merged commit_hashes.
C8_HashBasedMergeCount ==
    m_pc \in {"merging", "done"} =>
        \A i \in DOMAIN merged_stats :
            /\ merged_stats[i].commits = Cardinality(FoldedHashes(i))
            /\ merged_stats[i].commits =
                   Cardinality(merged_stats[i].commit_hashes)

\* C8 witness: two result sets carry hashes for Alice, one hash in both, and
\* the merged count is below the sum of the two counts
C8_Witness ==
    /\ m_pc = "done"
    /\ Len(stats_list) = 2
    /\ \A r \in 1..2 :
           /\ Alice \in DOMAIN stats_list[r]
           /\ "commit_hashes" \in DOMAIN stats_list[r][Alice]
    /\ stats_list[1][Alice].commit_hashes = {"h1", "h2"}
    /\ stats_list[2][Alice].commit_hashes = {"h2"}
    /\ merged_stats[Alice].commits = 2
    /\ stats_list[1][Alice].commits + stats_list[2][Alice].commits = 3

----------------------------------------------------------------------------
\* Ratio bounds

\* a ratio <<numerator, denominator>> lies in 0..1
InUnit(ratio) == 0 <= ratio[1] /\ ratio[1] <= ratio[2]

\* C9: every identity of a result of get_repo_stats (the result sets handed
\* to merge_stats) and of the result of merge_stats has a commit_day_ratio
\* between 0 and 1.
C9_DayRatioBound ==
    m_pc = "done" =>
        /\ \A r \in 1..Len(stats_list) : \A i \in DOMAIN stats_list[r] :
               InUnit(stats_list[r][i].commit_day_ratio)
        /\ \A i \in DOMAIN merged_stats :
               "commit_day_ratio" \in DOMAIN merged_stats[i] =>
                   InUnit(merged_stats[i].commit_day_ratio)

\* C10: every identity of a result of get_repo_stats has a commit_week_ratio
\* between 0 and 1, and a total_weeks no smaller than the number of ISO
\* weeks in which it committed, also when the window from its first commit
\* to today holds an ISO year of 53 weeks.
C10_WeekRatioBound ==
    g_pc = "done" =>
        \A i \in DOMAIN stats :
            /\ InUnit(stats[i].commit_week_ratio)
            /\ stats[i].total_weeks >= stats[i].weeks_with_commits

----------------------------------------------------------------------------
\* Frequency score

\* C11: whatever the day ratio, week ratio, longest streak and average gap
\* of the record, ratios above 1 and very large gaps included, the score
\* get_commit_frequency_score returns lies between 0 and 10.
C11_FrequencyScoreBound ==
    s_pc = "returned" =>
        /\ s_score[2] = 10
        /\ 0 <= s_score[1] /\ s_score[1] <= 100

\* C11 witness: a record with a very large average gap whose parts add up
\* to 0.6 - 2 = -1.4, scored 0
C11_Witness ==
    /\ s_pc = "returned"
    /\ s_data.avg_gap_days = <<1000, 1>>
    /\ s_data.max_streak = 3
    /\ FrequencySum(s_data) = <<-7, 5>>
    /\ s_score = <<0, 10>>

FracMax(x, y) == IF FracLess(x, y) THEN y ELSE x

\* min(day_ratio*10, 5) + min(week_ratio*5, 3) + min(max_streak/5, 2)
ScoreParts(d) ==
    FracAdd(FracAdd(FracMin(FracTimes(d.commit_day_ratio, 10), <<5, 1>>),
                    FracMin(FracTimes(d.commit_week_ratio, 5), <<3, 1>>)),
            FracMin(Frac(d.max_streak, 5), <<2, 1>>))

\* min(max(avg_gap_days - 7, 0) / 7, 2)
StatedGapPenalty(d) ==
    FracMin(FracOver(FracMax(FracSub(d.avg_gap_days, <<7, 1>>), <<0, 1>>),
                     7),
            <<2, 1>>)

\* clamp(0, 10, round(x, 1)), as tenths over 10
ClampedRound(x) ==
    {<<IF t < 0 THEN 0 ELSE IF t > 100 THEN 100 ELSE t, 10>> : t \in Round1(x)}

\* C12: the score is the sum of the three capped parts minus the gap
\* penalty, rounded to one decimal and clamped to 0..10; an average gap of
\* at most 7 days costs nothing; day ratio 1, week ratio 1, longest streak
\* 10 and average gap 1 score exactly 10.0.
C12_FrequencyScoreFormula ==
    s_pc = "returned" =>
        /\ s_score \in
               ClampedRound(FracSub(ScoreParts(s_data),
                                    StatedGapPenalty(s_data)))
        /\ ~FracLess(<<7, 1>>, s_data.avg_gap_days) =>
               s_score \in ClampedRound(ScoreParts(s_data))
        /\ (/\ s_data.commit_day_ratio = <<1, 1>>
            /\ s_data.commit_week_ratio = <<1, 1>>
            /\ s_data.max_streak = 10
            /\ s_data.avg_gap_days = <<1, 1>>) => s_score = <<100, 10>>

\* C12 witness: a record with an average gap of 21 days, whose penalty of 2
\* shows in the score, 10.0 - 2 = 8.0
C12_Witness ==
    /\ s_pc = "returned"
    /\ s_data.commit_day_ratio = <<1, 1>>
    /\ s_data.commit_week_ratio = <<1, 1>>
    /\ s_data.max_streak = 10
    /\ s_data.avg_gap_days = <<21, 1>>
    /\ s_score = <<80, 10>>

----------------------------------------------------------------------------
\* Streaks

\* the records of the result sets handed to merge_stats, each finalized by
\* get_repo_stats, and those of the finished merge
FinishedRecords ==
    UNION {{stats_list[r][i] : i \in DOMAIN stats_list[r]} :
              r \in 1..Len(stats_list)}
    \cup (IF m_pc = "done"
          THEN {merged_stats[i] : i \in {j \in DOMAIN merged_stats :
                   merged_stats[j].first_commit # <<>>}}
          ELSE {})

\* the calendar days, as ordinals, on which the record has commits
DaysOf(rec) == {ParseDay(key)[1] : key \in DOMAIN rec.commit_days}

\* the days of the record are n >= 1 consecutive calendar days
ConsecutiveDays(rec) ==
    /\ DaysOf(rec) # {}
    /\ DaysOf(rec) = SetMin(DaysOf(rec))..SetMax(DaysOf(rec))

\* C13: a record whose commits fall on exactly n >= 1 consecutive calendar
\* days, from any weekday and with any number of commits a day, has
\* max_streak n, total_gap_days 0 and streak_gap_ratio n, as finalized by
\* get_repo_stats and by merge_stats.
C13_StreakMonotonicity ==
    \A rec \in FinishedRecords :
        ConsecutiveDays(rec) =>
            /\ rec.max_streak = Cardinality(DaysOf(rec))
            /\ rec.total_gap_days = 0
            /\ rec.streak_gap_ratio = <<Cardinality(DaysOf(rec)), 1>>

\* C13 witness: one repository holds Thursday and Friday, the other
\* Saturday to Monday; the first result has a streak of 2, the merged
\* record one of 5, with more commits than days
C13_Witness ==
    /\ m_pc = "done"
    /\ Alice \in DOMAIN merged_stats
    /\ DaysOf(merged_stats[Alice]) = (WindowStart + 2)..(WindowStart + 6)
    /\ merged_stats[Alice].max_streak = 5
    /\ merged_stats[Alice].streak_gap_ratio = <<5, 1>>
    /\ Alice \in DOMAIN stats_list[1]
    /\ DaysOf(stats_list[1][Alice]) = {WindowStart + 2, WindowStart + 3}
    /\ stats_list[1][Alice].max_streak = 2
    /\ Len(merged_stats[Alice].commit_dates) > 5

\* day b continues a run from day a: the next calendar day, or the Monday
\* that follows the Friday a
Continues(a, b) ==
    \/ b - a = 1
    \/ Weekday(a) = 4 /\ Weekday(b) = 0 /\ b - a = 3

\* the active days from lo to hi form a run
IsRun(S, lo, hi) ==
    LET T == {d \in S : lo <= d /\ d <= hi}
    IN  \A d \in T \ {lo} : Continues(SetMax({e \in T : e < d}), d)

\* the length of the longest run of the active days S
LongestRun(S) ==
    IF S = {} THEN 0
    ELSE SetMax({Cardinality({d \in S : p[1] <= d /\ d <= p[2]}) :
                    p \in {q \in S \X S : IsRun(S, q[1], q[2])}})

\* C14: max_streak is the length of the longest run of active days in which
\* each day is the calendar day after the previous one or the Monday after
\* a Friday; no other gap continues a run. Commits on a Friday and the
\* following Monday only give max_streak 2, and in the plain accounting
\* total_streak_days 2, total_gap_days 2 and streak_gap_ratio 2/3; commits
\* on Thursday and Monday, Friday and Tuesday, or Saturday and Monday only
\* give max_streak 1.
C14_WeekendBridgingStreak ==
    \A rec \in FinishedRecords :
        /\ rec.max_streak = LongestRun(DaysOf(rec))
        /\ DaysOf(rec) = {WindowStart + 3, WindowStart + 6} =>
               /\ rec.max_streak = 2
               /\ rec.total_streak_days = 2
               /\ rec.total_gap_days = 2
               /\ rec.streak_gap_ratio = <<2, 3>>
        /\ DaysOf(rec) \in {{WindowStart + 2, WindowStart + 6},
                            {WindowStart + 3, WindowStart + 7},
                            {WindowStart + 4, WindowStart + 6}} =>
               rec.max_streak = 1

\* C14 witness: the merged record has commits on Thursday, Friday, Monday
\* and Wednesday: Friday to Monday continues the run, Monday to Wednesday
\* does not, and the first repository, with Thursday and Friday, has 2
C14_Witness ==
    /\ m_pc = "done"
    /\ Alice \in DOMAIN merged_stats
    /\ Weekday(WindowStart + 3) = 4
    /\ DaysOf(merged_stats[Alice]) =
           {WindowStart + 2, WindowStart + 3, WindowStart + 6,
            WindowStart + 8}
    /\ merged_stats[Alice].max_streak = 3
    /\ Alice \in DOMAIN stats_list[1]
    /\ stats_list[1][Alice].max_streak = 2

----------------------------------------------------------------------------
\* handle_stats_command

\* the paths of the command line with a repository that can be analysed
GoodPaths ==
    {k \in 1..Len(h_args.repo_paths) :
        h_args.repo_paths[k].kind \notin FatalKinds}

\* C15: with several repository paths of which one fails fatally (no
\* repository, no such path, branch not found), the run does not end at
\* that repository: it is reported and skipped, every other repository is
\* analysed, and the results reach the merge and the display.
C15_ErrorIsolation ==
    (/\ h_pc \in {"done", "exited"}
     /\ Len(h_args.repo_paths) > 1
     /\ \E k \in 1..Len(h_args.repo_paths) : k \notin GoodPaths) =>
        /\ h_pc = "done"
        /\ \A k \in 1..Len(h_args.repo_paths) :
               k \notin GoodPaths => \E j \in 1..Len(h_errors) : h_errors[j] = k
        /\ Len(h_stats_list) = Cardinality(GoodPaths)
        /\ GoodPaths # {} => h_shown # <<>>

----------------------------------------------------------------------------
\* merge_stats: the window of the ratios

\* the later of the earliest first commit of the merged identities and
\* midnight of the since date, if one is given
WindowStartOfMerge ==
    LET firsts == {merged_stats[i].first_commit : i \in DOMAIN merged_stats}
        earliest == CHOOSE d \in firsts : \A e \in firsts : ~DtLess(e, d)
        since_dt == <<YmdToOrd(m_since[1], m_since[2], m_since[3]), 0>>
    IN  IF m_since # <<>> /\ DtLess(earliest, since_dt) THEN since_dt
        ELSE earliest

\* C16: merge_stats computes the day and week ratios of every merged
\* identity against one window, from the later of the earliest first commit
\* and the since date to today: total_days and total_weeks are the same for
\* all identities, whatever their own first commit, and the start returned
\* with the merged mapping is the start of that window.
C16_SharedMergeWindow ==
    (m_pc = "done" /\ DOMAIN merged_stats # {}) =>
        /\ \A i \in DOMAIN merged_stats :
               /\ merged_stats[i].total_days =
                      DeltaDays(<<today, 0>>, WindowStartOfMerge) + 1
               /\ merged_stats[i].total_weeks =
                      TotalWeeks(WindowStartOfMerge, <<today, 0>>)
        /\ overall_start_date = WindowStartOfMerge

\* max() of a non-empty set of datetimes
DtMax(S) == CHOOSE d \in S : \A e \in S : ~DtLess(d, e)

\* the timestamps of the commits attributed to identity i so far by the
\* aggregation pass
DatesCounted(i) ==
    {commits[k].date : k \in {j \in CountedSoFar :
                                 ResolvedIdentity(commits[j]) = i}}

\* the timestamps of identity i in the results merge_stats has folded in
DatesFolded(i) ==
    UNION {{stats_list[r][i].commit_dates[k] :
               k \in 1..Len(stats_list[r][i].commit_dates)} :
           r \in {q \in 1..repo_index : i \in DOMAIN stats_list[q]}}

\* first is the minimum and last the maximum of the non-empty set D
FirstLastOf(first, last, D) ==
    /\ D # {}
    /\ first # <<>> /\ last # <<>>
    /\ first = DtMin(D) /\ last = DtMax(D)
    /\ ~DtLess(last, first)

\* C17: after every commit processed by get_repo_stats and after every
\* result folded in by merge_stats, each identity present has a first_commit
\* and a last_commit, the minimum and the maximum of the commit timestamps
\* attributed to it so far, so that first_commit <= last_commit.
C17_FirstLastCommit ==
    /\ g_pc \in {"process", "done"} =>
           \A i \in DOMAIN stats :
               FirstLastOf(stats[i].first_commit, stats[i].last_commit,
                           DatesCounted(i))
    /\ m_pc \in {"merging", "done"} =>
           \A i \in DOMAIN merged_stats :
               FirstLastOf(merged_stats[i].first_commit,
                           merged_stats[i].last_commit, DatesFolded(i))

\* C17 witness: get_repo_stats met Alice's newer commit before her older
\* one, and merge_stats has folded two results that both have Alice, the
\* second with the earlier first commit
C17_Witness ==
    /\ g_pc = "done" /\ m_pc = "done"
    /\ Len(commits) = 2
    /\ DtLess(commits[2].date, commits[1].date)
    /\ ResolvedIdentity(commits[1]) = ResolvedIdentity(commits[2])
    /\ Len(stats_list) = 2
    /\ \E i \in DOMAIN stats_list[1] \cap DOMAIN stats_list[2] :
           /\ DtLess(stats_list[2][i].first_commit,
                     stats_list[1][i].first_commit)
           /\ DtLess(merged_stats[i].first_commit,
                     merged_stats[i].last_commit)

\* the sum of the counts of a Counter
RECURSIVE CounterTotal(_)
CounterTotal(counter) ==
    IF DOMAIN counter = {} THEN 0
    ELSE LET k == CHOOSE x \in DOMAIN counter : TRUE
         IN  counter[k] + CounterTotal(MapDel(counter, k))

\* the dates of the commits counted so far that resolve to identity i
DatesOfIdentity(i) ==
    {commits[k].date : k \in {j \in CountedSoFar :
                                 ResolvedIdentity(commits[j]) = i}}

\* counter holds, for the dates of the list, the number of them in each
\* bucket Key(date), and no other bucket
BucketsOf(counter, dates, Key(_)) ==
    /\ DOMAIN counter = {Key(dates[k]) : k \in 1..Len(dates)}
    /\ \A b \in DOMAIN counter :
           counter[b] =
               Cardinality({k \in 1..Len(dates) : Key(dates[k]) = b})

\* C18: during and after the aggregation pass of get_repo_stats, for every
\* identity the length of commit_dates, commits and the totals of the day,
\* week and month counters are equal, commit_dates holds the dates of the
\* identity's commits, and each counter holds exactly one count per commit,
\* in the day, ISO week and month of the commit's own date.
C18_BucketConsistency ==
    g_pc \in {"process", "done"} =>
        \A i \in DOMAIN stats :
            LET data == stats[i]
            IN  /\ Len(data.commit_dates) = data.commits
                /\ data.commits = CounterTotal(data.commit_days)
                /\ data.commits = CounterTotal(data.commit_weeks)
                /\ data.commits = CounterTotal(data.commit_months)
                /\ {data.commit_dates[k] : k \in 1..Len(data.commit_dates)}
                       = DatesOfIdentity(i)
                /\ BucketsOf(data.commit_days, data.commit_dates, DayKey)
                /\ BucketsOf(data.commit_weeks, data.commit_dates, WeekKey)
                /\ BucketsOf(data.commit_months, data.commit_dates,
                             MonthKey)

\* C18 witness: an identity with three commits on two days of one week
C18_Witness ==
    /\ g_pc = "done"
    /\ \E i \in DOMAIN stats :
           /\ stats[i].commits = 3
           /\ Cardinality(DOMAIN stats[i].commit_days) = 2
           /\ Cardinality(DOMAIN stats[i].commit_weeks) = 1
           /\ \E d \in DOMAIN stats[i].commit_days :
                  stats[i].commit_days[d] = 2

\* the path of a changed file contains none of the exclude patterns
PathKept(item) ==
    ~(exclude # <<>> /\ \E pattern \in SplitComma(exclude) :
                            Contains(item.a_path, pattern))

\* the added and deleted line counts, as <<added, deleted, files>>, of the
\* changed files of `files` from index k whose path is kept
RECURSIVE FileTotals(_, _)
FileTotals(files, k) ==
    IF k > Len(files) THEN <<0, 0, 0>>
    ELSE LET rest == FileTotals(files, k + 1)
         IN  IF PathKept(files[k])
             THEN <<rest[1] + files[k].added, rest[2] + files[k].deleted,
                    rest[3] + 1>>
             ELSE rest

\* the same totals over the commits from index k that are counted for
\* identity i and have a parent
RECURSIVE CommitTotals(_, _)
CommitTotals(i, k) ==
    IF k > Len(commits) THEN <<0, 0, 0>>
    ELSE LET rest == CommitTotals(i, k + 1)
             c == commits[k]
         IN  IF /\ ~AuthorExcluded(c)
                /\ ResolvedIdentity(c) = i
                /\ c.parents > 0
             THEN LET f == FileTotals(c.files, 1)
                  IN  <<rest[1] + f[1], rest[2] + f[2], rest[3] + f[3]>>
             ELSE rest

\* C19: after aggregation, lines_added and lines_deleted of an identity are
\* the sums of the added and deleted line counts of every changed file,
\* modified, newly added or deleted, whose path contains no exclude pattern,
\* over its counted commits that have a parent; a root commit adds nothing
\* to the line and file counters; net_lines = lines_added - lines_deleted.
C19_LineAccounting ==
    g_pc = "done" =>
        \A i \in DOMAIN stats :
            LET sums == CommitTotals(i, 1)
            IN  /\ stats[i].lines_added = sums[1]
                /\ stats[i].lines_deleted = sums[2]
                /\ stats[i].files_changed = sums[3]
                /\ stats[i].net_lines =
                       stats[i].lines_added - stats[i].lines_deleted

\* the lists that hold the commits of cs in another order
Reorderings(cs) ==
    {[k \in 1..Len(cs) |-> cs[p[k]]] :
        p \in {q \in [1..Len(cs) -> 1..Len(cs)] :
                  \A j, k \in 1..Len(cs) : j # k => q[j] # q[k]}}

\* what get_repo_stats computes for the commits cs under the arguments and
\* stores of the run, without the display name
StatsOf(cs) ==
    LET st == Aggregate(SelectCommits(cs, since, until), identity_store,
                        all_excluded_developers, exclude)
    IN  [i \in DOMAIN st |-> FinalizeRepoIdentity(st[i], <<today, 0>>, <<>>)]

\* the fields of a record the claim lists, commit_dates as a multiset: the
\* record without display_name and with commit_dates sorted
Compared(rec) ==
    [f \in DOMAIN rec \ {"display_name"} |->
        IF f = "commit_dates" THEN SortDates(rec[f]) ELSE rec[f]]

\* C20: get_repo_stats returns, for every permutation of the commits of the
\* repository, the same identities and for each identity the same counters,
\* name and e-mail sets, first and last commit, day, week and month buckets,
\* multiset of commit_dates and derived ratio, gap and streak metrics.
C20_OrderIndependence ==
    g_pc = "done" =>
        \A cs \in Reorderings(repo) :
            LET other == StatsOf(cs)
            IN  /\ DOMAIN other = DOMAIN stats
                /\ \A i \in DOMAIN stats :
                       Compared(other[i]) = Compared(stats[i])

\* C20 witness: a finished run over three different commits, two of one
\* identity and not in the order of their dates
C20_Witness ==
    /\ g_pc = "done"
    /\ Len(commits) = 3
    /\ \A j, k \in 1..3 : j # k => commits[j] # commits[k]
    /\ \E i \in DOMAIN stats :
           /\ stats[i].commits = 2
           /\ stats[i].commit_dates[1] # stats[i].first_commit
           /\ stats[i].avg_gap_days # <<0, 1>>

\* year * 12 + month of a datetime
MonthIndex(dt) == OrdYear(dt[1]) * 12 + OrdMonth(dt[1])

\* the records merge_stats has finalized
MergedRecords ==
    IF m_pc = "done"
    THEN {merged_stats[i] : i \in {j \in DOMAIN merged_stats :
             merged_stats[j].first_commit # <<>>}}
    ELSE {}

\* the records get_repo_stats has finalized, and those of merge_stats
FinalizedRecords ==
    (IF g_pc = "done" THEN {stats[i] : i \in DOMAIN stats} ELSE {})
    \cup MergedRecords

\* C21: every identity finalized by get_repo_stats or by merge_stats has
\* total_months equal to the months from its own first commit to its own
\* last commit, both included, commit_month_ratio equal to
\* months_with_commits / total_months, and so 0 < commit_month_ratio <= 1,
\* whatever the current date and the analysis window.
C21_MonthRatioOwnSpan ==
    \A rec \in FinalizedRecords :
        /\ rec.total_months =
               MonthIndex(rec.last_commit) - MonthIndex(rec.first_commit) + 1
        /\ rec.months_with_commits = Cardinality(DOMAIN rec.commit_months)
        /\ rec.commit_month_ratio[1] * rec.total_months =
               rec.months_with_commits * rec.commit_month_ratio[2]
        /\ 0 < rec.commit_month_ratio[1]
        /\ rec.commit_month_ratio[1] <= rec.commit_month_ratio[2]

\* the number of Monday-Friday days strictly between the days of a and b
WorkdaysBetween(a, b) ==
    Cardinality({d \in (a[1] + 1)..(b[1] - 1) : Weekday(d) < 5})

\* C22: in every finalized record, of get_repo_stats or of merge_stats, the
\* workday gap of each pair of consecutive commits in timestamp order is the
\* number of Monday-Friday days strictly between the days of the two
\* commits, 0 for two commits of one day, and never negative.
C22_WorkdayGap ==
    m_pc = "done" =>
        \A rec \in FinishedRecords :
            Len(rec.commit_dates) > 1 =>
                LET sorted_dates == SortDates(rec.commit_dates)
                IN  /\ Len(rec.workday_gaps) = Len(sorted_dates) - 1
                    /\ \A k \in 1..Len(rec.workday_gaps) :
                           /\ rec.workday_gaps[k] >= 0
                           /\ rec.workday_gaps[k] =
                                  WorkdaysBetween(sorted_dates[k],
                                                  sorted_dates[k + 1])

\* the raw author name on the most commits counted for identity i, the one
\* met first in processing order among those that tie
MostFrequentName(i) ==
    LET own == {k \in CountedSoFar : ResolvedIdentity(commits[k]) = i}
        Count(n) == Cardinality({k \in own : commits[k].name = n})
        First(n) == SetMin({k \in own : commits[k].name = n})
        names == {commits[k].name : k \in own}
    IN  CHOOSE n \in names :
            \A o \in names \ {n} :
                \/ Count(o) < Count(n)
                \/ Count(o) = Count(n) /\ First(n) < First(o)

\* C23: the display_name of every identity finalized by get_repo_stats is
\* the raw author name on the largest number of its commits, and among
\* names that tie the one first met in processing order.
C23_DisplayName ==
    g_pc = "done" =>
        \A i \in DOMAIN stats : stats[i].display_name = MostFrequentName(i)

\* the day of a 'YYYY-MM-DD' key, as an ordinal
DayOrdinal(key) == YmdToOrd(key[1], key[2], key[3])

\* C24: with since = S and until = U, get_repo_stats processes exactly the
\* non-merge commits whose calendar date d satisfies S <= d <= U, those made
\* at any time of day on S or on U included.
C24_InclusiveDateFilters ==
    g_pc \in {"process", "done"} =>
        commits =
            SelectSeq(repo,
                      LAMBDA c :
                          /\ c.parents <= 1
                          /\ since = <<>> \/ DayOrdinal(since) <= c.date[1]
                          /\ until = <<>> \/ c.date[1] <= DayOrdinal(until))

\* C25: while and after merge_stats folds the result sets, every merged
\* identity holds each commit timestamp once in commit_dates, however many
\* inputs carry it, and counts it once in the day, week and month buckets:
\* the counts of each of the three counters add up to len(commit_dates).
C25_MergeDateDedup ==
    m_pc \in {"merging", "done"} =>
        \A i \in DOMAIN merged_stats :
            LET data == merged_stats[i]
                n == Len(data.commit_dates)
            IN  /\ \A j, k \in 1..n :
                       j # k => data.commit_dates[j] # data.commit_dates[k]
                /\ CounterTotal(data.commit_days) = n
                /\ CounterTotal(data.commit_weeks) = n
                /\ CounterTotal(data.commit_months) = n

\* C26: merge_stats returns, for every permutation of the list of result
\* sets, the same identities and per identity the same commits,
\* commit_hashes, name and e-mail sets, line and file counters, first and
\* last commit, buckets, multiset of commit_dates and derived metrics, and
\* the same start date.
C26_MergeOrderIndependence ==
    m_pc = "done" =>
        \A list \in Reorderings(stats_list) :
            LET other == MergedResult(list, m_since)
            IN  /\ other.overall_start_date = overall_start_date
                /\ DOMAIN other.stats = DOMAIN merged_stats
                /\ \A i \in DOMAIN merged_stats :
                       Compared(other.stats[i]) = Compared(merged_stats[i])

\* C26 witness: a finished merge of two different result sets that share an
\* identity, the second with the earlier first commit and other commits
C26_Witness ==
    /\ m_pc = "done"
    /\ Len(stats_list) = 2
    /\ \E i \in DOMAIN stats_list[1] \cap DOMAIN stats_list[2] :
           /\ DtLess(stats_list[2][i].first_commit,
                     stats_list[1][i].first_commit)
           /\ stats_list[1][i].lines_added # stats_list[2][i].lines_added
           /\ Len(merged_stats[i].commit_dates) = 2
           /\ "max_streak" \in DOMAIN merged_stats[i]

\* C27: when a result set is merged with itself, or with that of a mirror
\* holding the same commits, every merged identity has the lines_added,
\* lines_deleted, net_lines and files_changed of the single result set.
C27_NoDoubleCountedChurn ==
    (/\ m_pc \in {"merging", "done"}
     /\ Len(stats_list) = 2
     /\ repo_index = 2
     /\ stats_list[1] = stats_list[2]) =>
        \A i \in DOMAIN merged_stats :
            LET single == stats_list[1][i]
            IN  /\ merged_stats[i].lines_added = single.lines_added
                /\ merged_stats[i].lines_deleted = single.lines_deleted
                /\ merged_stats[i].net_lines = single.net_lines
                /\ merged_stats[i].files_changed = single.files_changed

\* the quotients of a finalized record
QuotientFields ==
    {"commit_day_ratio", "commit_week_ratio", "commit_month_ratio",
     "avg_gap_days", "max_gap_days", "avg_workday_gap",
     "weekday_commit_ratio", "avg_active_day_gap", "streak_gap_ratio"}

\* C28: no quotient of a record finalized by get_repo_stats or merge_stats
\* is taken over zero. A record with exactly one commit has avg_gap_days,
\* max_gap_days, avg_workday_gap, avg_active_day_gap and max_active_day_gap
\* 0 and weekday_commit_ratio 1 if the commit is made from Monday to Friday,
\* else 0; when total_days (total_weeks) is not positive the day (week)
\* ratio is 0.
C28_ZeroDenominatorDefaults ==
    \A rec \in FinalizedRecords :
        /\ \A f \in QuotientFields : rec[f][2] > 0
        /\ Len(rec.commit_dates) = 1 =>
               /\ rec.avg_gap_days[1] = 0
               /\ rec.max_gap_days[1] = 0
               /\ rec.avg_workday_gap[1] = 0
               /\ rec.avg_active_day_gap[1] = 0
               /\ rec.max_active_day_gap = 0
               /\ rec.weekday_commit_ratio =
                      IF Weekday(rec.commit_dates[1][1]) < 5
                      THEN <<1, 1>> ELSE <<0, 1>>
        /\ rec.total_days <= 0 => rec.commit_day_ratio[1] = 0
        /\ rec.total_weeks <= 0 => rec.commit_week_ratio[1] = 0

\* C28 witness: get_repo_stats and merge_stats have each finalized a record
\* with one commit, made today, a Monday, so that total_days is 0
C28_Witness ==
    /\ g_pc = "done" /\ m_pc = "done"
    /\ \E i \in DOMAIN stats :
           /\ Len(stats[i].commit_dates) = 1
           /\ stats[i].total_days = 0
           /\ stats[i].weekday_commit_ratio = <<1, 1>>
    /\ \E rec \in MergedRecords :
           /\ Len(rec.commit_dates) = 1
           /\ rec.total_days = 0
           /\ rec.weekday_commit_ratio = <<1, 1>>

\* the length of the longest run of calendar-consecutive days of S
LongestPlainRun(S) ==
    IF S = {} THEN 0
    ELSE SetMax({p[2] - p[1] + 1 :
                    p \in {q \in S \X S :
                              /\ q[1] <= q[2]
                              /\ \A d \in q[1]..q[2] : d \in S}})

\* C29: in every finalized record, of one repository or merged,
\* total_streak_days is the number of distinct active days,
\* total_streak_days + total_gap_days is the number of days from the
\* earliest to the latest active day, both included, and max_streak is at
\* least 1, at least the longest run of calendar-consecutive active days
\* and at most the number of active days.
C29_StreakAccounting ==
    \A rec \in FinishedRecords :
        LET days == DaysOf(rec)
        IN  /\ rec.total_streak_days = Cardinality(days)
            /\ rec.total_streak_days + rec.total_gap_days =
                   SetMax(days) - SetMin(days) + 1
            /\ 1 <= rec.max_streak
            /\ rec.max_streak <= Cardinality(days)
            /\ rec.max_streak >= LongestPlainRun(days)

\* C29 witness: a finished merge whose record has two runs of active days
\* with a gap of several days between them, and a streak that a weekend
\* bridge makes longer than the longest plain run
C29_Witness ==
    /\ m_pc = "done"
    /\ \E rec \in MergedRecords :
           /\ rec.total_gap_days >= 3
           /\ rec.total_streak_days >= 4
           /\ rec.max_streak > LongestPlainRun(DaysOf(rec))

\* every path of the command line is a repository with at least one commit
\* in the analysed period
AllPathsValid ==
    /\ h_args.repo_paths # <<>>
    /\ \A k \in 1..Len(h_args.repo_paths) :
           LET path == h_args.repo_paths[k]
           IN  /\ path.kind \notin FatalKinds
               /\ SelectCommits(path.commits, h_since, <<>>) # <<>>

\* C30: a run of handle_stats_command over N >= 1 paths that are all
\* repositories with a matching commit ends with no repository reported as
\* failed, N result sets in stats_list, and a table displayed: the single
\* result when N = 1, the merged one when N > 1.
C30_PipelineDisplaysTable ==
    (h_pc \in {"done", "exited"} /\ AllPathsValid) =>
        /\ h_pc = "done"
        /\ h_errors = <<>>
        /\ Len(h_stats_list) = Len(h_args.repo_paths)
        /\ h_shown # <<>>
        /\ h_shown.is_merged = (Len(h_args.repo_paths) > 1)

====
